---- MODULE Spec2Model ----
(***************************************************************************)
(* Model of the Move VM session adapter                                    *)
(* (language/move-vm/runtime/src/move_vm_adapter.rs), of the natives of    *)
(* the standard library (language/move-stdlib/src/natives: hash.rs,        *)
(* vector.rs, string.rs, mod.rs) and of the task reader of the            *)
(* transactional test runner (testing-infra/transactional-test-runner/     *)
(* src/tasks.rs):                                                          *)
(*   Spec          one session: publish_module_bundle_with_option,         *)
(*                 verify_module_bundle and empty_loader_cache, with the   *)
(*                 collaborators they call (the session's DataStore, the   *)
(*                 Loader and its module cache, the binary-format          *)
(*                 deserializer, the compatibility checker and the         *)
(*                 bytecode verifier);                                     *)
(*   SpecVerify    the same session, for the frame of the verifying calls; *)
(*   SpecSessions  two sessions of one VM sharing the Loader;              *)
(*   SpecEntry     verify_script_args and verify_script_function_args;     *)
(*   SpecNative    the hash, vector and string natives, each called with   *)
(*                 gas parameters of its own;                              *)
(*   SpecTables    two native function tables built by all_natives;        *)
(*   SpecTask      parse_argument and taskify.                             *)
(***************************************************************************)
EXTENDS Integers, Sequences, FiniteSets, TLC

(***************************************************************************)
(* Bounds and input sets                                                   *)
(***************************************************************************)

\* Longest module bundle submitted in one call.
MaxBundle == 2

Addresses == {"0xA", "0xB"}
Names == {"M", "N"}
ModuleIds == Addresses \X Names

\* normalized::Module, reduced to what the compatibility checker compares:
\* the field layout of the module's public struct and its public functions.
FullIface == [fields |-> <<"x", "y">>, funs |-> {"f"}]
LessIface == [fields |-> <<"x">>, funs |-> {"f"}]

\* Verdict of the bytecode verifier on a module body: accepted, or the
\* status and diagnostic it rejects the body with.
GoodBody == [status |-> "VERIFIED", diag |-> ""]
BadBody == [status |-> "TYPE_MISMATCH", diag |-> "ill-typed body"]

\* A module blob: the bytes submitted by the sender.  magic is FALSE for
\* bytes that are no module at all; pad is 1 for an encoding that is
\* accepted by the deserializer but is not the one the serializer produces.
Blob(a, n, i, b, p) ==
    [magic |-> TRUE, address |-> a, name |-> n, self_handle |-> 0,
     iface |-> i, body |-> b, pad |-> p]

Garbage ==
    [magic |-> FALSE, address |-> "0xA", name |-> "M", self_handle |-> 0,
     iface |-> LessIface, body |-> BadBody, pad |-> 0]

\* The blobs a caller submits.
BlobPool ==
    { Blob("0xA", "M", FullIface, GoodBody, 0),
      Blob("0xA", "M", LessIface, GoodBody, 1),
      Blob("0xA", "N", FullIface, GoodBody, 0),
      Blob("0xA", "N", FullIface, BadBody, 0),
      Blob("0xB", "M", FullIface, GoodBody, 0),
      Garbage }

RECURSIVE SeqsUpTo(_, _)
SeqsUpTo(S, n) ==
    IF n = 0 THEN {<<>>}
    ELSE LET shorter == SeqsUpTo(S, n - 1)
         IN shorter \cup {Append(s, x) : s \in shorter, x \in S}

Bundles == SeqsUpTo(BlobPool, MaxBundle) \ {<<>>}

\* The options of a publication (struct PublishModuleBundleOption).
PublishModuleBundleOption ==
    [force_publish : BOOLEAN, only_new_module : BOOLEAN]

NoModule == [magic |-> FALSE, address |-> "", name |-> "", self_handle |-> 0,
             iface |-> LessIface, body |-> BadBody, pad |-> 0]
Unloaded == [address |-> "", name |-> "", self_handle |-> 0,
             iface |-> LessIface, body |-> BadBody]

(***************************************************************************)
(* Errors (VMError): major status, index, message, location.               *)
(***************************************************************************)

VMError(major, index, message, location) ==
    [major |-> major, index |-> index, message |-> message,
     location |-> location]

Ok == VMError("EXECUTED", <<>>, "", <<>>)

\* PartialVMError::finish(Location::Undefined)
Undefined == <<"Undefined">>

IsOk(r) == r.major = "EXECUTED"

(***************************************************************************)
(* Collaborators                                                           *)
(***************************************************************************)

\* CompiledModule::deserialize
deserialize(blob) ==
    IF blob.magic
    THEN [res |-> Ok,
          module |-> [address |-> blob.address, name |-> blob.name,
                      self_handle |-> blob.self_handle,
                      iface |-> blob.iface, body |-> blob.body]]
    ELSE [res |-> VMError("BAD_MAGIC", <<>>, "", <<>>), module |-> Unloaded]

\* CompiledModule::serialize: the canonical encoding.
serialize(m) == Blob(m.address, m.name, m.iface, m.body, 0)

\* ModuleAccess::self_id
self_id(m) == <<m.address, m.name>>

\* Compatibility::check(old, new)
Compatibility_check(old_m, new_m) ==
    [struct_layout |-> old_m.fields = new_m.fields,
     struct_and_function_linking |-> old_m.funs \subseteq new_m.funs]

\* Compatibility::is_fully_compatible
is_fully_compatible(compat) ==
    compat.struct_layout /\ compat.struct_and_function_linking

VARIABLES
    store,      \* the session's DataStore: ModuleId -> blob, or NoModule
    cache,      \* the Loader's module cache: ModuleId -> module, or Unloaded
    req,        \* the last call: operation and arguments
    result,     \* what the last call returned
    log,        \* the collaborator calls the last call made, in order
    preStore,   \* store when the last call began
    preCache,   \* cache when the last call began
    sstore,     \* two sessions over one VM: each session's DataStore
    scall,      \* two sessions over one VM: each session's call in progress
    scache,     \* two sessions over one VM: the Loader's module cache
    entry,      \* the last verification of entry arguments
    native,     \* the last call of a native function
    tables,     \* the native function tables built, and what they were built from
    task        \* the last argument parsed by the test runner

pubVars == <<store, cache, req, result, log, preStore, preCache>>
sessVars == <<sstore, scall, scache>>
vars == <<pubVars, sessVars, entry, native, tables, task>>

(***************************************************************************)
(* DataStore and Loader                                                    *)
(***************************************************************************)

\* One record per collaborator call, in call order.
Ev(ev, id) == [ev |-> ev, id |-> id, blob |-> NoModule, republish |-> FALSE]

\* The error of a DataStore call that fails (VMResult of exists_module,
\* load_module and publish_module).
StorageError == VMError("STORAGE_ERROR", <<>>, "", Undefined)

\* PartialVMError::finish
finish(err, location) == [err EXCEPT !.location = location]

\* DataStore::exists_module on the session's data cache.
exists_module(st, id) == st[id] # NoModule

\* DataStore::publish_module is the one DataStore call that writes: the
\* data cache st after the publish_module calls among calls, the last
\* bytes written for a ModuleId being the stored ones.
data_cache_after(st, calls) ==
    [id \in DOMAIN st |->
        LET writes == {i \in DOMAIN calls :
                          calls[i].ev = "publish_module" /\ calls[i].id = id}
        IN IF writes = {} THEN st[id]
           ELSE calls[CHOOSE i \in writes : \A j \in writes : j <= i].blob]

\* Loader::load_module(id, data_store): a cached module is served from the
\* cache (a read of the cache, no DataStore call); otherwise the stored bytes
\* are read (DataStore call number n + 1, which fails when n + 1 = fault),
\* deserialized and cached.
load_module(c, st, id, n, fault) ==
    IF c[id] # Unloaded
    THEN [res |-> Ok, module |-> c[id], cache |-> c, n |-> n,
          log |-> <<Ev("module_at", id)>>]
    ELSE IF n + 1 = fault
    THEN [res |-> StorageError, module |-> Unloaded, cache |-> c, n |-> n + 1,
          log |-> <<Ev("load_module", id)>>]
    ELSE [res |-> Ok, module |-> deserialize(st[id]).module,
          cache |-> [c EXCEPT ![id] = deserialize(st[id]).module],
          n |-> n + 1, log |-> <<Ev("load_module", id)>>]

\* Loader::empty_cache
empty_cache(c) == [id \in ModuleIds |-> Unloaded]

\* Loader::verify_module_bundle_for_publication: the bytecode verifier run
\* over the bundle in order; the first rejected module gives the error.
verify_module_bundle_for_publication(compiled_modules) ==
    LET rejected == {i \in DOMAIN compiled_modules :
                        compiled_modules[i].body # GoodBody}
        first == CHOOSE i \in rejected : \A j \in rejected : i <= j
    IN IF rejected = {} THEN Ok
       ELSE VMError(compiled_modules[first].body.status,
                    <<"ModuleHandle", first - 1>>,
                    compiled_modules[first].body.diag,
                    <<"Module", self_id(compiled_modules[first])>>)

(***************************************************************************)
(* SessionAdapter                                                          *)
(***************************************************************************)

\* Variant: only the first blob's deserialization error is noticed.
malformed_blobs_first_only(modules) ==
    {i \in DOMAIN modules : i = 1 /\ ~IsOk(deserialize(modules[i]).res)}

\* verify_module_bundle, lines 107-117: the positions of the blobs that do
\* not deserialize; collect() returns the error of the first.
malformed_blobs(modules) ==
    {i \in DOMAIN modules : ~IsOk(deserialize(modules[i]).res)}

\* Variant: only the first module's address is compared with the sender.
address_mismatches_first_only(compiled_modules, sender) ==
    {i \in DOMAIN compiled_modules :
        i = 1 /\ compiled_modules[i].address # sender}

\* verify_module_bundle, lines 122-131: the positions of the modules whose
\* self address is not the sender.
address_mismatches(compiled_modules, sender) ==
    {i \in DOMAIN compiled_modules : compiled_modules[i].address # sender}

\* Variant: force_publish lifts the ban on republishing.
republish_forbidden_unless_forced(exists, option) ==
    exists /\ option.only_new_module /\ ~option.force_publish

\* verify_module_bundle, lines 143-144: an existing module is refused when
\* only new modules may be published.
republish_forbidden(exists, option) == exists /\ option.only_new_module

\* Variant: force_publish is not consulted.
rejects_update_ignoring_force(compat, option) == ~is_fully_compatible(compat)

\* verify_module_bundle, line 163: the compatibility step rejects.
rejects_update(compat, option) ==
    ~is_fully_compatible(compat) /\ ~option.force_publish

\* Variant: the result of the insertion is not looked at.
already_in_bundle_ignored(bundle_unverified, module_id) == FALSE

\* verify_module_bundle, line 170: !bundle_unverified.insert(module_id)
already_in_bundle(bundle_unverified, module_id) ==
    module_id \in bundle_unverified

\* Variant: the verifier's error is finished again at Location::Undefined.
propagate_refinished(err) == finish(err, Undefined)

\* verify_module_bundle, lines 177-180: the ? on the verifier's result hands
\* the verifier's error to the caller as it is.
propagate(err) == err

\* Variant: every write is flagged as a first publication.
is_republish_never(st, module_id) == FALSE

\* publish_module_bundle_with_option, lines 84-88.
is_republish(st, module_id) == exists_module(st, module_id)

\* Variant: the compiled module is serialized again and those bytes written.
published_bytes_reserialized(module, blob) == serialize(module)

\* publish_module_bundle_with_option, line 89: the bytes handed to
\* publish_module are the submitted blob.
published_bytes(module, blob) == blob

Least(S) == CHOOSE i \in S : \A j \in S : i <= j

\* verify_module_bundle, lines 141-174: the loop over the compiled modules.
\* s = [i, seen, cache, log, n]: next position, bundle_unverified, the module
\* cache, the calls made and the number of DataStore calls made so far.
RECURSIVE check_republish(_, _, _, _, _)
check_republish(compiled_modules, option, st, fault, s) ==
    IF s.i > Len(compiled_modules)
    THEN [res |-> Ok, cache |-> s.cache, log |-> s.log, n |-> s.n]
    ELSE
      LET module == compiled_modules[s.i]
          module_id == self_id(module)
          n1 == s.n + 1
          log1 == Append(s.log, Ev("exists_module", module_id))
          exists == exists_module(st, module_id)
          old == load_module(s.cache, st, module_id, n1, fault)
          compat == Compatibility_check(old.module.iface, module.iface)
          cache2 == IF exists THEN old.cache ELSE s.cache
          log2 == IF exists THEN log1 \o old.log ELSE log1
          n2 == IF exists THEN old.n ELSE n1
      IN IF n1 = fault
         THEN [res |-> StorageError, cache |-> s.cache, log |-> log1, n |-> n1]
         ELSE IF republish_forbidden(exists, option)
         THEN [res |-> finish(VMError("INVALID_MODULE_PUBLISHER",
                                      <<"ModuleHandle", module.self_handle>>,
                                      "", <<>>), Undefined),
               cache |-> s.cache, log |-> log1, n |-> n1]
         ELSE IF exists /\ ~IsOk(old.res)
         THEN [res |-> old.res, cache |-> cache2, log |-> log2, n |-> n2]
         ELSE IF exists /\ rejects_update(compat, option)
         THEN [res |-> finish(VMError("BACKWARD_INCOMPATIBLE_MODULE_UPDATE",
                                      <<>>, "", <<>>), Undefined),
               cache |-> cache2, log |-> log2, n |-> n2]
         ELSE IF already_in_bundle(s.seen, module_id)
         THEN [res |-> finish(VMError("DUPLICATE_MODULE_NAME", <<>>, "", <<>>),
                              Undefined),
               cache |-> cache2, log |-> log2, n |-> n2]
         ELSE check_republish(compiled_modules, option, st, fault,
                              [i |-> s.i + 1, seen |-> s.seen \cup {module_id},
                               cache |-> cache2, log |-> log2, n |-> n2])

\* Variant: the bytecode verifier is consulted before the republish scan.
verify_module_bundle_verifier_first(st, c, modules, sender, option, fault) ==
    LET compiled_modules ==
            [i \in DOMAIN modules |-> deserialize(modules[i]).module]
        foreign == address_mismatches(compiled_modules, sender)
        scan == check_republish(compiled_modules, option, st, fault,
                                [i |-> 1, seen |-> {}, cache |-> c,
                                 log |-> <<>>, n |-> 0])
        verdict == verify_module_bundle_for_publication(compiled_modules)
        ran == <<Ev("verify_module_bundle_for_publication", <<"", "">>)>>
        none == [res |-> Ok, compiled |-> <<>>, cache |-> c, log |-> <<>>,
                 n |-> 0]
    IN IF malformed_blobs(modules) # {}
       THEN [none EXCEPT !.res =
               finish(deserialize(modules[Least(malformed_blobs(modules))]).res,
                      Undefined)]
       ELSE IF foreign # {}
       THEN [none EXCEPT !.res =
               finish(VMError("MODULE_ADDRESS_DOES_NOT_MATCH_SENDER",
                              <<"AddressIdentifier",
                                compiled_modules[Least(foreign)].self_handle>>,
                              "", <<>>), Undefined)]
       ELSE IF ~IsOk(verdict)
       THEN [none EXCEPT !.res = propagate(verdict), !.log = ran]
       ELSE [res |-> scan.res,
             compiled |-> IF IsOk(scan.res) THEN compiled_modules ELSE <<>>,
             cache |-> scan.cache, log |-> ran \o scan.log, n |-> scan.n]

\* Variant: a bundle that passes every check is also written.
verify_module_bundle_publishing(st, c, modules, sender, option, fault) ==
    LET malformed == malformed_blobs(modules)
        compiled_modules ==
            [i \in DOMAIN modules |-> deserialize(modules[i]).module]
        foreign == address_mismatches(compiled_modules, sender)
        scan == check_republish(compiled_modules, option, st, fault,
                                [i |-> 1, seen |-> {}, cache |-> c,
                                 log |-> <<>>, n |-> 0])
        verdict == verify_module_bundle_for_publication(compiled_modules)
        writes == [i \in DOMAIN modules |->
                     [ev |-> "publish_module", id |-> self_id(compiled_modules[i]),
                      blob |-> modules[i], republish |-> FALSE]]
        none == [res |-> Ok, compiled |-> <<>>, cache |-> c, log |-> <<>>,
                 n |-> 0]
    IN IF malformed # {}
       THEN [none EXCEPT !.res =
               finish(deserialize(modules[Least(malformed)]).res, Undefined)]
       ELSE IF foreign # {}
       THEN [none EXCEPT !.res =
               finish(VMError("MODULE_ADDRESS_DOES_NOT_MATCH_SENDER",
                              <<"AddressIdentifier",
                                compiled_modules[Least(foreign)].self_handle>>,
                              "", <<>>), Undefined)]
       ELSE IF ~IsOk(scan.res)
       THEN [res |-> scan.res, compiled |-> <<>>, cache |-> scan.cache,
             log |-> scan.log, n |-> scan.n]
       ELSE [res |-> propagate(verdict),
             compiled |-> IF IsOk(verdict) THEN compiled_modules ELSE <<>>,
             cache |-> scan.cache,
             log |-> Append(scan.log,
                            Ev("verify_module_bundle_for_publication",
                               <<"", "">>))
                        \o (IF IsOk(verdict) THEN writes ELSE <<>>),
             n |-> scan.n]

\* verify_module_bundle(modules, sender, _gas_meter, option) on the data
\* cache st and the module cache c; DataStore call number fault fails
\* (0: none does).  Returns the result, the compiled modules, the module
\* cache afterwards, the calls made and the number of DataStore calls.
verify_module_bundle(st, c, modules, sender, option, fault) ==
    LET malformed == malformed_blobs(modules)
        compiled_modules ==
            [i \in DOMAIN modules |-> deserialize(modules[i]).module]
        foreign == address_mismatches(compiled_modules, sender)
        scan == check_republish(compiled_modules, option, st, fault,
                                [i |-> 1, seen |-> {}, cache |-> c,
                                 log |-> <<>>, n |-> 0])
        verdict == verify_module_bundle_for_publication(compiled_modules)
        none == [res |-> Ok, compiled |-> <<>>, cache |-> c, log |-> <<>>,
                 n |-> 0]
    IN IF malformed # {}
       THEN [none EXCEPT !.res =
               finish(deserialize(modules[Least(malformed)]).res, Undefined)]
       ELSE IF foreign # {}
       THEN [none EXCEPT !.res =
               finish(VMError("MODULE_ADDRESS_DOES_NOT_MATCH_SENDER",
                              <<"AddressIdentifier",
                                compiled_modules[Least(foreign)].self_handle>>,
                              "", <<>>), Undefined)]
       ELSE IF ~IsOk(scan.res)
       THEN [res |-> scan.res, compiled |-> <<>>, cache |-> scan.cache,
             log |-> scan.log, n |-> scan.n]
       ELSE [res |-> propagate(verdict),
             compiled |-> IF IsOk(verdict) THEN compiled_modules ELSE <<>>,
             cache |-> scan.cache,
             log |-> Append(scan.log,
                            Ev("verify_module_bundle_for_publication",
                               <<"", "">>)),
             n |-> scan.n]

\* publish_module_bundle_with_option, lines 83-90: the write loop over
\* compiled_modules zipped with the submitted blobs.
\* s = [i, store, log, n].
RECURSIVE publish_modules(_, _, _, _)
publish_modules(compiled_modules, modules, fault, s) ==
    IF s.i > Len(compiled_modules) \/ s.i > Len(modules)
    THEN [res |-> Ok, store |-> s.store, log |-> s.log]
    ELSE
      LET module_id == self_id(compiled_modules[s.i])
          blob == published_bytes(compiled_modules[s.i], modules[s.i])
          republish == is_republish(s.store, module_id)
          log1 == Append(s.log, Ev("exists_module", module_id))
          log2 == Append(log1, [ev |-> "publish_module", id |-> module_id,
                                blob |-> blob, republish |-> republish])
      IN IF s.n + 1 = fault
         THEN [res |-> StorageError, store |-> s.store, log |-> log1]
         ELSE IF s.n + 2 = fault
         THEN [res |-> StorageError, store |-> s.store, log |-> log2]
         ELSE publish_modules(compiled_modules, modules, fault,
                              [i |-> s.i + 1,
                               store |-> [s.store EXCEPT ![module_id] = blob],
                               log |-> log2, n |-> s.n + 2])

\* The same call, verifying the bundle a second time before it writes.
publish_module_bundle_reverifying(st, c, modules, sender, option, fault) ==
    LET first == verify_module_bundle(st, c, modules, sender, option, fault)
        again == verify_module_bundle(st, first.cache, modules, sender,
                                      option, 0)
        verified == [again EXCEPT !.log = first.log \o again.log,
                                  !.n = first.n]
        written == publish_modules(verified.compiled, modules, fault,
                                   [i |-> 1, store |-> st,
                                    log |-> verified.log, n |-> verified.n])
    IN IF ~IsOk(first.res)
       THEN [res |-> first.res, store |-> st, cache |-> first.cache,
             log |-> first.log]
       ELSE [res |-> written.res, store |-> written.store,
             cache |-> verified.cache, log |-> written.log]

\* publish_module_bundle_with_option(modules, sender, gas_meter, option)
publish_module_bundle_with_option(st, c, modules, sender, option, fault) ==
    LET verified == verify_module_bundle(st, c, modules, sender, option, fault)
        written == publish_modules(verified.compiled, modules, fault,
                                   [i |-> 1, store |-> st,
                                    log |-> verified.log, n |-> verified.n])
    IN IF ~IsOk(verified.res)
       THEN [res |-> verified.res, store |-> st, cache |-> verified.cache,
             log |-> verified.log]
       ELSE [res |-> written.res, store |-> written.store,
             cache |-> verified.cache, log |-> written.log]

\* empty_loader_cache that leaves the loaded modules in place.
empty_loader_cache_keeps_loaded(c) == c

\* SessionAdapter::empty_loader_cache: the loader's whole cache is emptied.
empty_loader_cache(c) == empty_cache(c)

(***************************************************************************)
(* The session as a state machine                                          *)
(***************************************************************************)

DefaultOption == [force_publish |-> FALSE, only_new_module |-> FALSE]

Request(op, modules, sender, option) ==
    [op |-> op, modules |-> modules, sender |-> sender, option |-> option]

\* No call is in progress and the last result has been taken by the caller.
Idle == Request("idle", <<>>, "0xA", DefaultOption)

\* Two sessions created over one VM and one storage.
Sessions == {"A", "B"}

\* The storage both sessions are created over holds one module.
BaseStore ==
    [id \in ModuleIds |->
        IF id = <<"0xA", "M">> THEN Blob("0xA", "M", FullIface, GoodBody, 0)
        ELSE NoModule]

\* A session's call in progress: pc is "idle", "scan" (in the loop of
\* verify_module_bundle, before position i) or "done".  looked: the call has
\* read the module cache; flushed: the cache was emptied after that; torn:
\* the call read the cache again after that.  alone is the result the last
\* iteration gives when nothing is cached.
IdleCall ==
    [pc |-> "idle", op |-> "idle", modules |-> <<>>, option |-> DefaultOption,
     i |-> 1, seen |-> {}, res |-> Ok, alone |-> Ok,
     looked |-> FALSE, flushed |-> FALSE, torn |-> FALSE]

\* No verification of entry arguments is in progress: the function's
\* declared parameters and return types, the raw arguments, the sender, the
\* result, the steps taken, and what deserialize_args was given and gave.
EntryIdle ==
    [op |-> "idle", loads |-> TRUE, parameters |-> <<>>, return_ |-> <<>>,
     args |-> <<>>, sender |-> "0xA", result |-> Ok, log |-> <<>>,
     final_args |-> <<>>, values |-> <<>>]

\* No native function is being called: the gas parameters of the native,
\* the arguments it was called with and those it left, the cost it charged
\* and the values it returned.
NativeIdle ==
    [op |-> "idle",
     gas_params |-> [base |-> 0, per_byte |-> 0, legacy_min_input_len |-> 0],
     called_with |-> <<>>, arguments |-> <<>>, cost |-> 0, ret |-> <<>>]

\* No native function table has been built yet.
NoTables == <<>>

\* The test runner has parsed no argument yet.
TaskIdle == [op |-> "idle", s |-> <<>>, result |-> [ok |-> TRUE]]

\* A new session over an empty store, with a VM whose loader cache is empty.
Init ==
    /\ store = [id \in ModuleIds |-> NoModule]
    /\ cache = [id \in ModuleIds |-> Unloaded]
    /\ req = Idle
    /\ result = Ok
    /\ log = <<>>
    /\ preStore = [id \in ModuleIds |-> NoModule]
    /\ preCache = [id \in ModuleIds |-> Unloaded]
    /\ sstore = [s \in Sessions |-> BaseStore]
    /\ scall = [s \in Sessions |-> IdleCall]
    /\ scache = [id \in ModuleIds |-> Unloaded]
    /\ entry = EntryIdle
    /\ native = NativeIdle
    /\ tables = NoTables
    /\ task = TaskIdle

\* The DataStore calls one publication of the bundle can make: per module
\* exists_module and load_module while verifying, exists_module and
\* publish_module while writing.
PublishFaults(modules) == 0 .. 4 * Len(modules)

\* The DataStore calls one verification of the bundle can make.
VerifyFaults(modules) == 0 .. 2 * Len(modules)

Publish ==
    /\ req = Idle
    /\ \E modules \in Bundles, sender \in Addresses,
          option \in PublishModuleBundleOption :
         \E fault \in PublishFaults(modules) :
           \E r \in {publish_module_bundle_with_option(store, cache, modules,
                                                       sender, option, fault)} :
              /\ req' = Request("publish_module_bundle_with_option", modules,
                                sender, option)
              /\ result' = r.res
              /\ store' = r.store
              /\ cache' = r.cache
              /\ log' = r.log
              /\ preStore' = store
              /\ preCache' = cache
              /\ UNCHANGED <<sessVars, entry, native, tables, task>>

Verify ==
    /\ req = Idle
    /\ \E modules \in Bundles, sender \in Addresses,
          option \in PublishModuleBundleOption :
         \E fault \in VerifyFaults(modules) :
           \E r \in {verify_module_bundle(store, cache, modules, sender,
                                          option, fault)} :
              /\ req' = Request("verify_module_bundle", modules, sender, option)
              /\ result' = r.res
              /\ store' = data_cache_after(store, r.log)
              /\ cache' = r.cache
              /\ log' = r.log
              /\ preStore' = store
              /\ preCache' = cache
              /\ UNCHANGED <<sessVars, entry, native, tables, task>>

EmptyLoaderCache ==
    /\ req = Idle
    /\ req' = Request("empty_loader_cache", <<>>, "0xA", DefaultOption)
    /\ result' = Ok
    /\ store' = store
    /\ cache' = empty_loader_cache(cache)
    /\ log' = <<>>
    /\ preStore' = store
    /\ preCache' = cache
    /\ UNCHANGED <<sessVars, entry, native, tables, task>>

\* The call returns: the caller takes the result and the session is ready
\* for its next call.
Return ==
    /\ req # Idle
    /\ req' = Idle
    /\ result' = Ok
    /\ log' = <<>>
    /\ preStore' = store
    /\ preCache' = cache
    /\ UNCHANGED <<store, cache>>
    /\ UNCHANGED <<sessVars, entry, native, tables, task>>

Next == Publish \/ Verify \/ EmptyLoaderCache \/ Return

Spec == Init /\ [][Next]_vars

(***************************************************************************)
(* Properties of the publication pipeline.  They speak of the last call:   *)
(* req, result and log, and the store and cache before and after it.       *)
(***************************************************************************)

IsPublish == req.op = "publish_module_bundle_with_option"
IsVerify == req.op = "verify_module_bundle"
Called == IsPublish \/ IsVerify
Positions == DOMAIN req.modules
AllDeserialize == \A i \in Positions : req.modules[i].magic
Compiled(i) == deserialize(req.modules[i]).module
IdAt(i) == self_id(Compiled(i))
AllAtSender == \A i \in Positions : Compiled(i).address = req.sender
Repeats(j) == \E k \in Positions : k < j /\ IdAt(k) = IdAt(j)
HasRepeat == \E j \in Positions : Repeats(j)
ExistedBefore(id) == preStore[id] # NoModule
TouchesExisting ==
    \E i \in Positions : req.modules[i].magic /\ ExistedBefore(IdAt(i))
Calls(ev) == {i \in DOMAIN log : log[i].ev = ev}
IsPublishCall(e) == e.ev = "publish_module"
PublishCalls == SelectSeq(log, IsPublishCall)
NoStorageError == result.major # "STORAGE_ERROR"

\* C1: a publish_module_bundle_with_option call that returns an error, for
\* whatever reason, leaves the DataStore's modules as they were before the
\* call.
C1_FailedPublishLeavesStore ==
    (IsPublish /\ ~IsOk(result)) => store = preStore

\* C2: when all blobs deserialize and some module's self address is not the
\* sender, verify_module_bundle and publish_module_bundle_with_option fail
\* with MODULE_ADDRESS_DOES_NOT_MATCH_SENDER, whatever the options and the
\* DataStore, before any exists_module query, and nothing is written.
C2_AddressMismatch ==
    (Called /\ AllDeserialize /\ ~AllAtSender) =>
        /\ result.major = "MODULE_ADDRESS_DOES_NOT_MATCH_SENDER"
        /\ Calls("exists_module") = {}
        /\ store = preStore

\* A forced publish by a sender of a module of another address whose
\* ModuleId is already stored, placed after a module of the sender.
C2_Witness ==
    /\ IsPublish /\ AllDeserialize /\ req.option.force_publish
    /\ Len(req.modules) = 2
    /\ Compiled(1).address = req.sender
    /\ Compiled(2).address # req.sender
    /\ ExistedBefore(IdAt(2))
    /\ result.major = "MODULE_ADDRESS_DOES_NOT_MATCH_SENDER"

FirstRepeat == Least({j \in Positions : Repeats(j)})

C4_Original ==
    (Called /\ req.option.only_new_module /\ TouchesExisting
            /\ AllDeserialize /\ NoStorageError)
        => (result.major = "INVALID_MODULE_PUBLISHER" /\ store = preStore)

FirstExisting ==
    Least({i \in Positions : req.modules[i].magic /\ ExistedBefore(IdAt(i))})

\* C4, amended: with only_new_module set, a bundle containing a module
\* whose ModuleId is already stored always fails and nothing is written; the
\* error is INVALID_MODULE_PUBLISHER when all blobs deserialize, all modules
\* are at the sender's address, no ModuleId is repeated before the first
\* such module and no DataStore call errs.  A successful publish with
\* only_new_module set overwrites no stored module.
C4_OnlyNewModule ==
    /\ (Called /\ req.option.only_new_module /\ TouchesExisting) =>
          /\ ~IsOk(result)
          /\ Calls("publish_module") = {}
          /\ store = preStore
          /\ ( /\ AllDeserialize /\ AllAtSender /\ NoStorageError
               /\ \A j \in 1 .. FirstExisting : ~Repeats(j) )
             => result.major = "INVALID_MODULE_PUBLISHER"
    /\ (IsPublish /\ req.option.only_new_module /\ IsOk(result)) =>
          \A id \in ModuleIds : ExistedBefore(id) => store[id] = preStore[id]

\* only_new_module and force_publish both set, the stored ModuleId in second
\* place after a new module.
C4_Witness ==
    /\ IsPublish /\ req.option.only_new_module /\ req.option.force_publish
    /\ AllDeserialize /\ AllAtSender
    /\ Len(req.modules) = 2
    /\ ~ExistedBefore(IdAt(1)) /\ ExistedBefore(IdAt(2))
    /\ result.major = "INVALID_MODULE_PUBLISHER"

\* The version of a stored module that the compatibility step compares a
\* new version with: the one Loader::load_module returns when the call
\* begins.
PreviousVersion(id) ==
    IF preCache[id] # Unloaded THEN preCache[id]
    ELSE deserialize(preStore[id]).module

Incompatible(i) ==
    /\ ExistedBefore(IdAt(i))
    /\ ~is_fully_compatible(
           Compatibility_check(PreviousVersion(IdAt(i)).iface,
                               Compiled(i).iface))

\* C5: once deserialization and the address check have passed, and with
\* only_new_module unset, the call fails with
\* BACKWARD_INCOMPATIBLE_MODULE_UPDATE if and only if force_publish is false
\* and the scan reaches (no ModuleId repeated before it) a module whose
\* ModuleId is stored and whose compatibility verdict against the previous
\* version is not fully compatible; with force_publish set no call fails
\* with that error.
C5_BackwardIncompatible ==
    /\ (Called /\ AllDeserialize /\ AllAtSender /\ NoStorageError
               /\ ~req.option.only_new_module) =>
          ( result.major = "BACKWARD_INCOMPATIBLE_MODULE_UPDATE"
            <=> /\ ~req.option.force_publish
                /\ \E i \in Positions :
                      Incompatible(i) /\ \A j \in 1 .. i - 1 : ~Repeats(j) )
    /\ (Called /\ req.option.force_publish) =>
          result.major # "BACKWARD_INCOMPATIBLE_MODULE_UPDATE"

\* An unforced republish rejected for its second module, the first being a
\* compatible republish.
C5_Witness ==
    /\ IsPublish /\ ~req.option.force_publish /\ ~req.option.only_new_module
    /\ AllDeserialize /\ AllAtSender
    /\ Len(req.modules) = 2
    /\ ExistedBefore(IdAt(1)) /\ ~Incompatible(1) /\ Incompatible(2)
    /\ result.major = "BACKWARD_INCOMPATIBLE_MODULE_UPDATE"

\* new is old with one field of the public struct removed.
FieldRemoved(old, new) ==
    /\ old.funs = new.funs
    /\ \E k \in DOMAIN old.fields :
          new.fields = SubSeq(old.fields, 1, k - 1)
                          \o SubSeq(old.fields, k + 1, Len(old.fields))

StoredIface(id) == deserialize(preStore[id]).module.iface

\* C6: an unforced republish of one module (only_new_module unset, DataStore
\* calls succeeding) never fails with BACKWARD_INCOMPATIBLE_MODULE_UPDATE
\* when its interface is identical to the stored version's, and always
\* fails with it when it is the stored version's with one public struct
\* field removed.
C6_IdenticalOrFieldRemoved ==
    (IsPublish /\ AllDeserialize /\ AllAtSender /\ NoStorageError
               /\ Len(req.modules) = 1 /\ ExistedBefore(IdAt(1))
               /\ ~req.option.force_publish /\ ~req.option.only_new_module) =>
        /\ StoredIface(IdAt(1)) = Compiled(1).iface
              => result.major # "BACKWARD_INCOMPATIBLE_MODULE_UPDATE"
        /\ FieldRemoved(StoredIface(IdAt(1)), Compiled(1).iface)
              => result.major = "BACKWARD_INCOMPATIBLE_MODULE_UPDATE"

\* C7: in a successful publish_module_bundle_with_option, every
\* publish_module call carries is_republish = TRUE exactly when its ModuleId
\* was stored before the call began, and there is one such call per module.
C7_RepublishFlag ==
    (IsPublish /\ IsOk(result)) =>
        /\ Len(PublishCalls) = Len(req.modules)
        /\ \A k \in DOMAIN PublishCalls :
              PublishCalls[k].republish = ExistedBefore(PublishCalls[k].id)

\* A successful publish of a stored module followed by a new one.
C7_Witness ==
    /\ IsPublish /\ IsOk(result)
    /\ Len(PublishCalls) = 2
    /\ PublishCalls[1].republish /\ ~PublishCalls[2].republish
    /\ ExistedBefore(IdAt(1)) /\ ~ExistedBefore(IdAt(2))

\* C8: after a successful publish_module_bundle_with_option the store holds
\* under the ModuleId of each module of the bundle exactly the submitted
\* blob, the publish_module calls were made in bundle order with those
\* blobs, and every other ModuleId is as before.
C8_StoredBytes ==
    (IsPublish /\ IsOk(result)) =>
        /\ \A i \in Positions : store[IdAt(i)] = req.modules[i]
        /\ Len(PublishCalls) = Len(req.modules)
        /\ \A i \in Positions :
              /\ PublishCalls[i].id = IdAt(i)
              /\ PublishCalls[i].blob = req.modules[i]
        /\ \A id \in ModuleIds \ {IdAt(i) : i \in Positions} :
              store[id] = preStore[id]

\* A successful publish of two modules, one of them submitted in an
\* encoding the serializer would not produce, another ModuleId being stored.
C8_Witness ==
    /\ IsPublish /\ IsOk(result)
    /\ Len(req.modules) = 2
    /\ \E i \in Positions : req.modules[i] # serialize(Compiled(i))
    /\ \E id \in ModuleIds \ {IdAt(i) : i \in Positions} : ExistedBefore(id)

\* C9: if any blob of the bundle does not deserialize, the call fails with
\* the deserialization error of the first such blob, wherever it stands and
\* whatever else is wrong with the bundle, and makes no exists_module query,
\* no verifier call and no write.
C9_MalformedBlob ==
    (Called /\ ~AllDeserialize) =>
        /\ result = finish(deserialize(req.modules[
                               Least({i \in Positions :
                                         ~req.modules[i].magic})]).res,
                           Undefined)
        /\ result.major = "BAD_MAGIC"
        /\ log = <<>>
        /\ store = preStore

\* A malformed blob in second place, after a module of another address
\* whose ModuleId is stored, with only_new_module set.
C9_Witness ==
    /\ IsPublish /\ Len(req.modules) = 2
    /\ req.modules[1].magic /\ ~req.modules[2].magic
    /\ Compiled(1).address # req.sender
    /\ ExistedBefore(IdAt(1))
    /\ req.option.only_new_module
    /\ result.major = "BAD_MAGIC"

VerifierCalled == Calls("verify_module_bundle_for_publication") # {}

\* C10: when the bundle reaches the bytecode verifier and the verifier
\* rejects it, the error of verify_module_bundle and of
\* publish_module_bundle_with_option is the verifier's error, field by field,
\* and nothing is written.
C10_VerifierError ==
    (Called /\ VerifierCalled /\ ~IsOk(result)
            /\ Calls("publish_module") = {}
            /\ log[Len(log)].ev = "verify_module_bundle_for_publication") =>
        /\ result = verify_module_bundle_for_publication(
                        [i \in Positions |-> Compiled(i)])
        /\ result.location = <<"Module", IdAt(result.index[2] + 1)>>
        /\ Compiled(result.index[2] + 1).body # GoodBody
        /\ store = preStore

\* The verifier rejects the second module of a bundle whose first module is
\* a republish.
C10_Witness ==
    /\ IsPublish /\ VerifierCalled
    /\ Len(req.modules) = 2
    /\ ExistedBefore(IdAt(1))
    /\ result.major = "TYPE_MISMATCH"
    /\ result.index = <<"ModuleHandle", 1>>

(***************************************************************************)
(* The loader cache across publications                                    *)
(***************************************************************************)

IsFlush == req.op = "empty_loader_cache"

\* The module the stored bytes of id give when loaded now.
StoredModule(id) == deserialize(store[id]).module

\* The ModuleIds the last call wrote over an existing module.
Republished == {PublishCalls[k].id : k \in {j \in DOMAIN PublishCalls :
                                                PublishCalls[j].republish}}

\* C11: when publish_module_bundle_with_option returns success and at least
\* one module of the bundle was a republish, the loader cache has been
\* invalidated by the time the call returns: it holds no module of a
\* republished ModuleId other than the one just stored.
C11_RepublishInvalidatesCache ==
    (IsPublish /\ IsOk(result)) =>
        \A id \in Republished :
            cache[id] = Unloaded \/ cache[id] = StoredModule(id)

\* The loader cache reads of the last call that returned an entry loaded
\* from bytes the store no longer held when the call began.
StaleReads ==
    {i \in Calls("module_at") :
        preCache[log[i].id] # Unloaded
        /\ preCache[log[i].id] # deserialize(preStore[log[i].id]).module}

\* C12: no read of the loader cache, the load_module of the compatibility
\* step included, returns an entry of a ModuleId that was republished after
\* the entry was loaded, unless the cache was flushed in between.
C12_NoStaleRead == Called => StaleReads = {}

\* C13: empty_loader_cache drops every entry: after it every ModuleId is
\* Unloaded, and the next lookup of a stored ModuleId returns the version
\* the DataStore holds.
C13_FlushDropsAll ==
    IsFlush =>
        \A id \in ModuleIds :
            /\ cache[id] = Unloaded
            /\ exists_module(store, id) =>
                   /\ load_module(cache, store, id, 0, 0).module
                          = StoredModule(id)
                   /\ load_module(cache, store, id, 0, 0).log
                          = <<Ev("load_module", id)>>

\* A flush of a cache that held a module of a republished ModuleId as it
\* was before the republish, and a module of another ModuleId.
C13_Witness ==
    /\ IsFlush
    /\ \E id \in ModuleIds :
          /\ preCache[id] # Unloaded
          /\ preCache[id] # StoredModule(id)
          /\ \E other \in ModuleIds \ {id} : preCache[other] # Unloaded

\* The reads of the previous version of a stored module that the last call
\* made for its compatibility step.
PreviousVersionReads == Calls("load_module") \cup Calls("module_at")

\* C29: whatever publications came before, the previous version the
\* compatibility step compares a new module with is the version most
\* recently written to the DataStore, never a superseded one.
C29_ComparesLatestWritten ==
    Called =>
        \A i \in PreviousVersionReads :
            PreviousVersion(log[i].id) = deserialize(preStore[log[i].id]).module

\* The bytecode verifier's runs in the last call.
VerifierRuns == Calls("verify_module_bundle_for_publication")

\* C30: in one publish_module_bundle_with_option call the bytecode verifier
\* runs at most once, and only after every module of the bundle has passed
\* the address check, the existence and compatibility checks and the
\* duplicate check, each made once; every DataStore write comes after the
\* verifier's run; after a failure no step is made again: a call that fails
\* before or in the verifier writes nothing and ends with the failing step.
C30_VerifierOnceBeforeWrites ==
    IsPublish =>
        /\ Cardinality(VerifierRuns) <= 1
        /\ \A v \in VerifierRuns :
              /\ AllDeserialize /\ AllAtSender /\ ~HasRepeat
              /\ \A i \in Positions :
                    /\ ~(ExistedBefore(IdAt(i)) /\ req.option.only_new_module)
                    /\ Incompatible(i) => req.option.force_publish
                    /\ \E k \in 1 .. v - 1 :
                          log[k] = Ev("exists_module", IdAt(i))
              /\ Cardinality({k \in 1 .. v - 1 : log[k].ev = "exists_module"})
                    = Len(req.modules)
              /\ \A w \in Calls("publish_module") : w > v
        /\ Calls("publish_module") # {} => VerifierRuns # {}
        /\ (~IsOk(result) /\ result.major # "STORAGE_ERROR"
               /\ VerifierRuns # {}) =>
              /\ log[Len(log)].ev = "verify_module_bundle_for_publication"
              /\ Calls("publish_module") = {}

\* A bundle of a new module and an update of a stored one passes every
\* check and the verifier, and both modules are written.
C30_Witness ==
    /\ IsPublish /\ IsOk(result)
    /\ Len(req.modules) = 2
    /\ ExistedBefore(IdAt(1)) /\ ~ExistedBefore(IdAt(2))
    /\ Cardinality(VerifierRuns) = 1
    /\ Cardinality(Calls("publish_module")) = 2

\* The cache entry of a ModuleId holds a module that can be read.
Loaded(c, id) == c[id] # Unloaded

\* C31: a cache entry moves Unloaded -> Loaded -> Invalid -> (flushed) ->
\* Unloaded only: when a republish of a ModuleId completes, its entry is no
\* longer Loaded (it is Invalid until a flush), and a Loaded entry becomes
\* Unloaded by a flush only.
C31_CacheEntryStateMachine ==
    /\ (IsPublish /\ IsOk(result)) =>
          \A id \in Republished : ~Loaded(cache, id)
    /\ \A id \in ModuleIds :
          (Loaded(preCache, id) /\ ~Loaded(cache, id)) => IsFlush

\* The rules of the republish scan that the module at position i breaks.
Forbidden(i) == ExistedBefore(IdAt(i)) /\ req.option.only_new_module
Rejected(i) == Incompatible(i) /\ ~req.option.force_publish
Offenders == {i \in Positions : Forbidden(i) \/ Rejected(i) \/ Repeats(i)}
ScanError(i) ==
    IF Forbidden(i) THEN "INVALID_MODULE_PUBLISHER"
    ELSE IF Rejected(i) THEN "BACKWARD_INCOMPATIBLE_MODULE_UPDATE"
    ELSE "DUPLICATE_MODULE_NAME"

\* C36: when a bundle breaks several rules at once the error is fixed by
\* the order of the checks (DataStore calls succeeding): a blob that does
\* not deserialize first; then a module whose address is not the sender;
\* then, at the first module in bundle order that breaks a rule of the
\* scan, republish forbidden (only_new_module) before backward
\* incompatibility before repeated ModuleId; then the verifier's verdict.
\* So only_new_module wins over force_publish: with both set, a stored
\* ModuleId that the scan reaches fails with INVALID_MODULE_PUBLISHER.
C36_CheckOrder ==
    (Called /\ NoStorageError) =>
        /\ ~AllDeserialize => result.major = "BAD_MAGIC"
        /\ (AllDeserialize /\ ~AllAtSender) =>
              result.major = "MODULE_ADDRESS_DOES_NOT_MATCH_SENDER"
        /\ (AllDeserialize /\ AllAtSender /\ Offenders # {}) =>
              /\ result.major = ScanError(Least(Offenders))
              /\ ~VerifierCalled
        /\ (AllDeserialize /\ AllAtSender /\ Offenders = {}) =>
              /\ VerifierCalled
              /\ result = verify_module_bundle_for_publication(
                              [i \in Positions |-> Compiled(i)])
        /\ ( /\ AllDeserialize /\ AllAtSender /\ TouchesExisting
             /\ req.option.only_new_module /\ req.option.force_publish
             /\ \A j \in 1 .. FirstExisting : ~Repeats(j) ) =>
              result.major = "INVALID_MODULE_PUBLISHER"

\* Both options set and a bundle that breaks the three rules of the scan at
\* once: its first module is an incompatible version of a stored module,
\* its second module repeats the ModuleId.
C36_Witness ==
    /\ IsPublish /\ AllDeserialize /\ AllAtSender
    /\ req.option.only_new_module /\ req.option.force_publish
    /\ Len(req.modules) = 2
    /\ Incompatible(1) /\ Repeats(2)
    /\ result.major = "INVALID_MODULE_PUBLISHER"

\* The session of Spec once more, for the properties that compare what the
\* next call would do before and after a call.
SpecVerify == Init /\ [][Next]_vars

\* What a publication of the bundle would do if it were the next call.
PublishNow(st, c, modules, sender, option) ==
    LET r == publish_module_bundle_with_option(st, c, modules, sender,
                                               option, 0)
    IN <<r.res, r.store>>

SessionBundles ==
    { <<Blob("0xA", "M", LessIface, GoodBody, 1)>>,
      <<Blob("0xA", "N", FullIface, GoodBody, 0)>>,
      <<Blob("0xA", "M", FullIface, GoodBody, 0),
        Blob("0xA", "N", FullIface, GoodBody, 0)>> }
SessionOps == {"verify_module_bundle", "publish_module_bundle_with_option"}
SessionOptions == [force_publish : BOOLEAN, only_new_module : {FALSE}]

\* The compiled modules of the first k blobs.
compiled_prefix(modules, k) ==
    [j \in 1 .. k |-> deserialize(modules[j]).module]

\* One iteration of the loop of verify_module_bundle, at position c.i of the
\* call c, on the DataStore st and the module cache ca.
scan_iteration(c, st, ca) ==
    check_republish(compiled_prefix(c.modules, c.i), c.option, st, 0,
                    [i |-> c.i, seen |-> c.seen, cache |-> ca, log |-> <<>>,
                     n |-> 0])

\* The iteration read the module cache (hit or miss).
looks_up(it) ==
    \E k \in DOMAIN it.log : it.log[k].ev \in {"load_module", "module_at"}

\* verify_module_bundle, lines 103-131: the call begins; the blobs are
\* deserialized and the self addresses compared with the sender.
SBegin(s) ==
    /\ scall[s].pc = "idle"
    /\ \E op \in SessionOps, modules \in SessionBundles,
          option \in SessionOptions :
         LET compiled == compiled_prefix(modules, Len(modules))
             bad == malformed_blobs(modules) # {}
                    \/ address_mismatches(compiled, "0xA") # {}
         IN scall' = [scall EXCEPT ![s] =
                        [IdleCall EXCEPT
                            !.pc = IF bad THEN "done" ELSE "scan",
                            !.op = op, !.modules = modules, !.option = option,
                            !.res = IF bad
                                    THEN verify_module_bundle(sstore[s],
                                             scache, modules, "0xA", option,
                                             0).res
                                    ELSE Ok,
                            !.alone = IF bad
                                      THEN verify_module_bundle(sstore[s],
                                               scache, modules, "0xA", option,
                                               0).res
                                      ELSE Ok]]
    /\ UNCHANGED <<sstore, scache, pubVars, entry, native, tables, task>>

\* verify_module_bundle, lines 141-174: one iteration of the loop.
SScan(s) ==
    /\ scall[s].pc = "scan"
    /\ scall[s].i <= Len(scall[s].modules)
    /\ \E it \in {scan_iteration(scall[s], sstore[s], scache)},
          al \in {scan_iteration(scall[s], sstore[s], empty_cache(scache))} :
         /\ scache' = it.cache
         /\ scall' = [scall EXCEPT ![s] =
              [@ EXCEPT
                 !.pc = IF IsOk(it.res) THEN "scan" ELSE "done",
                 !.i = @ + 1,
                 !.seen = @ \cup {self_id(deserialize(
                                      scall[s].modules[scall[s].i]).module)},
                 !.res = it.res,
                 !.alone = al.res,
                 !.looked = @ \/ looks_up(it),
                 !.torn = @ \/ (looks_up(it) /\ scall[s].flushed)]]
    /\ UNCHANGED <<sstore, pubVars, entry, native, tables, task>>

\* verify_module_bundle, lines 177-181, and for a publication the write
\* loop of publish_module_bundle_with_option, lines 81-91, on the session's
\* own DataStore.
SFinish(s) ==
    /\ scall[s].pc = "scan"
    /\ scall[s].i > Len(scall[s].modules)
    /\ LET c == scall[s]
           compiled == compiled_prefix(c.modules, Len(c.modules))
           verdict == propagate(verify_module_bundle_for_publication(compiled))
           written == publish_modules(compiled, c.modules, 0,
                                      [i |-> 1, store |-> sstore[s],
                                       log |-> <<>>, n |-> 0])
           writes == c.op = "publish_module_bundle_with_option"
                     /\ IsOk(verdict)
       IN /\ sstore' = [sstore EXCEPT ![s] =
                           IF writes THEN written.store ELSE @]
          /\ scall' = [scall EXCEPT ![s] =
                         [@ EXCEPT !.pc = "done",
                                   !.res = IF writes THEN written.res
                                           ELSE verdict,
                                   !.alone = IF writes THEN written.res
                                             ELSE verdict]]
    /\ UNCHANGED <<scache, pubVars, entry, native, tables, task>>

\* The call returns to the session's caller.
SReturn(s) ==
    /\ scall[s].pc = "done"
    /\ scall' = [scall EXCEPT ![s] = IdleCall]
    /\ UNCHANGED <<sstore, scache, pubVars, entry, native, tables, task>>

\* empty_loader_cache, lines 304-307, called on session s: the cache of the
\* VM is emptied under every session.
SFlush(s) ==
    /\ scall[s].pc = "idle"
    /\ scache' = empty_loader_cache(scache)
    /\ scall' = [t \in Sessions |->
                   [scall[t] EXCEPT !.flushed = @ \/ scall[t].looked]]
    /\ UNCHANGED <<sstore, pubVars, entry, native, tables, task>>

SessionsNext ==
    \E s \in Sessions :
        SBegin(s) \/ SScan(s) \/ SFinish(s) \/ SReturn(s) \/ SFlush(s)

SpecSessions == Init /\ [][SessionsNext]_vars

\* C14: under every interleaving of two sessions that share the loader
\* cache, no call combines lookups of two cache generations: a call that
\* has read the cache does not read it again after the cache was emptied.
C14_NoTornRead == \A s \in Sessions : ~scall[s].torn

\* C15: the module writes of one session are local to it: for a session
\* that has written nothing itself, every step of verify_module_bundle and
\* publish_module_bundle_with_option has the outcome its own DataStore
\* gives, whatever the other session has published.
C15_SessionLocalWrites ==
    \A s \in Sessions :
        sstore[s] = BaseStore => scall[s].res = scall[s].alone

(***************************************************************************)
(* Verification of entry arguments: verify_script_args,                    *)
(* verify_script_function_args, check_script_return and                    *)
(* check_script_signer_and_build_args (lines 184-302).                     *)
(***************************************************************************)

\* Most parameters of an entry function, most raw arguments of a call.
MaxParams == 3
MaxArgs == 2

\* The parameter and return types of the functions.
Types == {"signer", "u64", "bool"}

\* The bytes of an AccountAddress (two bytes wide here).
account_bytes(a) == IF a = "0xA" THEN <<0, 10>> ELSE <<0, 11>>

\* BCS of a u64: eight bytes, little endian.
encode_u64(n) ==
    <<n % 256, (n \div 256) % 256, (n \div 65536) % 256, 0, 0, 0, 0, 0>>

\* The raw arguments a caller passes: a u64, a bool, a byte that decodes as
\* neither, and the bytes of an address.
RawArgs == {encode_u64(42), <<1>>, <<7>>, account_bytes("0xA")}

\* MoveValue::Signer(sender).simple_serialize(): the bytes of the address.
simple_serialize_signer(sender) == account_bytes(sender)

\* The value a byte string decodes to against a type, when it does.
decodes(ty, bytes) ==
    CASE ty = "u64" -> Len(bytes) = 8
      [] ty = "bool" -> Len(bytes) = 1 /\ bytes[1] \in {0, 1}
      [] ty = "signer" -> Len(bytes) = 2
decoded(ty, bytes) ==
    CASE ty = "u64" ->
           [ty |-> "u64", v |-> bytes[1] + 256 * bytes[2] + 65536 * bytes[3]]
      [] ty = "bool" -> [ty |-> "bool", v |-> bytes[1]]
      [] ty = "signer" -> [ty |-> "signer", v |-> bytes[2]]

\* VMRuntime::deserialize_args(arg_tys, serialized_args): the lists must be
\* equally long and every argument must decode against its type.
deserialize_args(arg_tys, serialized_args) ==
    LET bad == {i \in DOMAIN serialized_args :
                   i \in DOMAIN arg_tys
                   /\ ~decodes(arg_tys[i], serialized_args[i])}
    IN IF Len(arg_tys) # Len(serialized_args)
       THEN [res |-> VMError("NUMBER_OF_ARGUMENTS_MISMATCH", <<>>, "", <<>>),
             values |-> <<>>]
       ELSE IF bad # {}
       THEN [res |-> VMError("FAILED_TO_DESERIALIZE_ARGUMENT", <<>>, "",
                             <<>>),
             values |-> <<>>]
       ELSE [res |-> Ok,
             values |-> [i \in DOMAIN arg_tys |->
                            decoded(arg_tys[i], serialized_args[i])]]

\* The error of a script or function the Loader cannot load.
LoadError == VMError("LINKER_ERROR", <<>>, "", Undefined)

\* Variant: any return type list is accepted.
check_script_return_accepts_any(return_) == Ok

\* check_script_return, lines 243-254
check_script_return(return_) ==
    IF return_ # <<>>
    THEN finish(VMError("RET_TYPE_MISMATCH_ERROR", <<>>,
                        "Expected script function should not return value",
                        <<>>), Undefined)
    ELSE Ok

\* Variant: a signer is accepted at any position.
misplaced_signers_none(parameters) == {}

\* check_script_signer_and_build_args, lines 264-282: the positions (from
\* 1) of the signer parameters that are not the first parameter.
misplaced_signers(parameters) ==
    {i \in DOMAIN parameters : parameters[i] = "signer" /\ i # 1}

\* Variant: the signer is never prepended.
build_final_args_raw(has_signer, args, sender) == args

\* check_script_signer_and_build_args, lines 284-293
build_final_args(has_signer, args, sender) ==
    IF has_signer THEN <<simple_serialize_signer(sender)>> \o args ELSE args

\* Variant: the result of deserialize_args is dropped.
deserialize_outcome_dropped(res) == Ok

\* check_script_signer_and_build_args, lines 295-299: a failure of
\* deserialize_args is finished at Location::Undefined and returned.
deserialize_outcome(res) == IF IsOk(res) THEN Ok ELSE finish(res, Undefined)

\* check_script_signer_and_build_args(func, arg_tys, args, sender), lines
\* 256-302; func.parameters() and arg_tys are the declared parameters.
check_script_signer_and_build_args(parameters, arg_tys, args, sender) ==
    LET misplaced == misplaced_signers(parameters)
        has_signer == parameters # <<>> /\ parameters[1] = "signer"
        final_args == build_final_args(has_signer, args, sender)
        des == deserialize_args(arg_tys, final_args)
    IN IF misplaced # {}
       THEN [res |-> finish(VMError("NUMBER_OF_SIGNER_ARGUMENTS_MISMATCH",
                       <<>>,
                       "Expected signer arg is this first arg, but got it at "
                           \o ToString(Least(misplaced)),
                       <<>>), Undefined),
             log |-> <<"signer_check">>, final_args |-> <<>>,
             values |-> <<>>]
       ELSE [res |-> deserialize_outcome(des.res),
             log |-> <<"signer_check", "deserialize_args">>,
             final_args |-> final_args, values |-> des.values]

\* verify_script_args, lines 184-210, and verify_script_function_args, lines
\* 212-240: load the script or function, check its return types, then its
\* signer parameter and arguments.  loads: the Loader finds and loads it.
verify_entry_args(loads, parameters, return_, args, sender) ==
    LET ret == check_script_return(return_)
        built == check_script_signer_and_build_args(parameters, parameters,
                                                    args, sender)
        none == [res |-> Ok, log |-> <<"load">>, final_args |-> <<>>,
                 values |-> <<>>]
    IN IF ~loads THEN [none EXCEPT !.res = LoadError]
       ELSE IF ~IsOk(ret)
       THEN [none EXCEPT !.res = ret,
                         !.log = <<"load", "check_script_return">>]
       ELSE [built EXCEPT !.log = <<"load", "check_script_return">> \o @]

Functions ==
    [parameters : SeqsUpTo(Types, MaxParams),
     return_ : {<<>>, <<"u64">>, <<"bool", "u64">>}]

EntryCall(op) ==
    /\ entry = EntryIdle
    /\ \E f \in Functions, args \in SeqsUpTo(RawArgs, MaxArgs),
          sender \in Addresses, loads \in BOOLEAN :
         \E r \in {verify_entry_args(loads, f.parameters, f.return_, args,
                                     sender)} :
            entry' = [op |-> op, loads |-> loads,
                      parameters |-> f.parameters, return_ |-> f.return_,
                      args |-> args, sender |-> sender, result |-> r.res,
                      log |-> r.log, final_args |-> r.final_args,
                      values |-> r.values]
    /\ UNCHANGED <<pubVars, sessVars, native, tables, task>>

VerifyScriptArgs == EntryCall("verify_script_args")

VerifyScriptFunctionArgs == EntryCall("verify_script_function_args")

\* The call returns to the caller.
EntryReturn ==
    /\ entry # EntryIdle
    /\ entry' = EntryIdle
    /\ UNCHANGED <<pubVars, sessVars, native, tables, task>>

EntryNext == VerifyScriptArgs \/ VerifyScriptFunctionArgs \/ EntryReturn

SpecEntry == Init /\ [][EntryNext]_vars

EntryCalled == entry.op # "idle"
MisplacedSigner ==
    \E i \in DOMAIN entry.parameters : i > 1 /\ entry.parameters[i] = "signer"
SignerFirst == entry.parameters # <<>> /\ entry.parameters[1] = "signer"
Deserialized == \E k \in DOMAIN entry.log : entry.log[k] = "deserialize_args"

ReturnsNothing == entry.return_ = <<>>

\* The claim as stated: a signer parameter at a position other than the
\* first always gives NUMBER_OF_SIGNER_ARGUMENTS_MISMATCH.
C16_Original ==
    (EntryCalled /\ entry.loads /\ MisplacedSigner) =>
        /\ entry.result.major = "NUMBER_OF_SIGNER_ARGUMENTS_MISMATCH"
        /\ ~Deserialized

\* C16: for a function that loads and declares a signer parameter at a
\* position other than the first, verify_script_args and
\* verify_script_function_args fail before any argument is deserialized,
\* whatever the raw arguments: with RET_TYPE_MISMATCH_ERROR when the
\* function declares return types, and otherwise with
\* NUMBER_OF_SIGNER_ARGUMENTS_MISMATCH naming the first such position.
C16_MisplacedSigner ==
    (EntryCalled /\ entry.loads /\ MisplacedSigner) =>
        /\ ~Deserialized
        /\ entry.final_args = <<>> /\ entry.values = <<>>
        /\ entry.result.location = Undefined
        /\ entry.result.major =
              IF ReturnsNothing THEN "NUMBER_OF_SIGNER_ARGUMENTS_MISMATCH"
              ELSE "RET_TYPE_MISMATCH_ERROR"
        /\ ReturnsNothing =>
              entry.result.message =
                 "Expected signer arg is this first arg, but got it at "
                    \o ToString(Least({i \in DOMAIN entry.parameters :
                                          i > 1
                                          /\ entry.parameters[i] = "signer"}))

\* A function (signer, u64, signer) without return types, called with the
\* one argument it would need were the last parameter not there.
C16_Witness ==
    /\ entry.op = "verify_script_function_args"
    /\ entry.loads /\ ReturnsNothing
    /\ entry.parameters = <<"signer", "u64", "signer">>
    /\ entry.args = <<encode_u64(42)>>
    /\ entry.result.major = "NUMBER_OF_SIGNER_ARGUMENTS_MISMATCH"

\* C17: the argument list handed to deserialization is the serialized
\* signer of the sender followed by the raw arguments when the first
\* parameter is a signer, and the raw arguments as they are otherwise; a
\* function (signer, u64) called by sender S with the raw argument
\* encode(42) is deserialized to [signer(S), 42].
C17_FinalArgs ==
    /\ (EntryCalled /\ Deserialized) =>
          /\ SignerFirst =>
                /\ Len(entry.final_args) = Len(entry.args) + 1
                /\ entry.final_args[1] = account_bytes(entry.sender)
                /\ \A i \in DOMAIN entry.args :
                      entry.final_args[i + 1] = entry.args[i]
          /\ ~SignerFirst => entry.final_args = entry.args
    /\ (EntryCalled /\ entry.loads /\ ReturnsNothing
          /\ entry.parameters = <<"signer", "u64">>
          /\ entry.args = <<encode_u64(42)>>) =>
          /\ IsOk(entry.result)
          /\ entry.values =
                <<[ty |-> "signer", v |-> account_bytes(entry.sender)[2]],
                  [ty |-> "u64", v |-> 42]>>

\* The function (signer, u64) called by sender 0xB with encode(42).
C17_Witness ==
    /\ entry.op = "verify_script_args"
    /\ entry.sender = "0xB"
    /\ entry.parameters = <<"signer", "u64">>
    /\ entry.args = <<encode_u64(42)>>
    /\ Len(entry.final_args) = 2
    /\ IsOk(entry.result)

\* C18: verify_script_args and verify_script_function_args fail with
\* RET_TYPE_MISMATCH_ERROR for every script or function that loads and
\* declares return types, whatever its parameters and arguments, and succeed
\* only for an empty return type list.
C18_ReturnTypes ==
    /\ (EntryCalled /\ entry.loads /\ ~ReturnsNothing) =>
          /\ entry.result.major = "RET_TYPE_MISMATCH_ERROR"
          /\ entry.result.location = Undefined
          /\ ~Deserialized
    /\ (EntryCalled /\ IsOk(entry.result)) => ReturnsNothing

\* A function (signer, u64) -> u64 called with arguments that fit.
C18_Witness ==
    /\ entry.op = "verify_script_function_args"
    /\ entry.loads
    /\ entry.return_ = <<"u64">>
    /\ entry.parameters = <<"signer", "u64">>
    /\ entry.args = <<encode_u64(42)>>
    /\ entry.result.major = "RET_TYPE_MISMATCH_ERROR"

\* The number of arguments the declared parameters ask of the caller.
ExpectedArgs == Len(entry.parameters) - (IF SignerFirst THEN 1 ELSE 0)

\* Raw argument i decodes against the parameter it is for.
Decodes(i) ==
    LET k == IF SignerFirst THEN i + 1 ELSE i
    IN k \in DOMAIN entry.parameters
       /\ decodes(entry.parameters[k], entry.args[i])

\* C19: verification succeeds only if the number of raw arguments, plus one
\* when the first parameter is a signer, equals the number of declared
\* parameters and every argument decodes against its parameter type: any
\* arity mismatch and any single undecodable argument makes it fail.
C19_ArityAndDecoding ==
    EntryCalled =>
        /\ IsOk(entry.result) =>
              /\ Len(entry.args) = ExpectedArgs
              /\ \A i \in DOMAIN entry.args : Decodes(i)
        /\ Len(entry.args) # ExpectedArgs => ~IsOk(entry.result)
        /\ (\E i \in DOMAIN entry.args : ~Decodes(i)) => ~IsOk(entry.result)

\* A function (signer, bool, u64) called with a bool that does not decode
\* and a u64 that does.
C19_Witness ==
    /\ EntryCalled /\ entry.loads /\ ReturnsNothing
    /\ entry.parameters = <<"signer", "bool", "u64">>
    /\ entry.args = <<(<<7>>), encode_u64(42)>>
    /\ Deserialized
    /\ entry.result.major = "FAILED_TO_DESERIALIZE_ARGUMENT"

(***************************************************************************)
(* The hash natives (language/move-stdlib/src/natives/hash.rs).            *)
(***************************************************************************)

\* Longest input hashed.
MaxInputLen == 20

\* Sha2_256GasParameters and Sha3_256GasParameters
HashGasParameters ==
    [base : {0, 50}, per_byte : {0, 2}, legacy_min_input_len : {0, 10}]

\* The byte vectors hashed: n bytes, all equal to b.
HashInputs == {[k \in 1 .. n |-> b] : n \in 0 .. MaxInputLen, b \in {0, 255}}

\* std::cmp::max
max(a, b) == IF a >= b THEN a ELSE b

\* Sha256::digest and Sha3_256::digest: the digest of the input under the
\* algorithm.
digest(algorithm, input) == [algorithm |-> algorithm, of |-> input]

\* native_sha2_256, lines 42-47: the cost charged.
sha2_256_cost(gas_params, len) ==
    gas_params.base
        + gas_params.per_byte * max(len, gas_params.legacy_min_input_len)

\* Variant: the legacy minimum input length is not applied.
sha3_256_cost_per_actual_byte(gas_params, len) ==
    gas_params.base + gas_params.per_byte * len

\* native_sha3_256, lines 116-121: the cost charged.
sha3_256_cost(gas_params, len) ==
    gas_params.base
        + gas_params.per_byte * max(len, gas_params.legacy_min_input_len)

\* pop_arg!(arguments, Vec<u8>): the last argument is taken.
pop_arg(arguments) ==
    [value |-> arguments[Len(arguments)],
     arguments |-> SubSeq(arguments, 1, Len(arguments) - 1)]

\* native_sha2_256(gas_params, _context, _ty_args, arguments), lines 31-54
native_sha2_256(gas_params, arguments) ==
    LET hash_arg == pop_arg(arguments)
    IN [cost |-> sha2_256_cost(gas_params, Len(hash_arg.value)),
        ret |-> <<digest("Sha256", hash_arg.value)>>,
        arguments |-> hash_arg.arguments]

\* native_sha3_256(gas_params, _context, _ty_args, arguments), lines 105-128
native_sha3_256(gas_params, arguments) ==
    LET hash_arg == pop_arg(arguments)
    IN [cost |-> sha3_256_cost(gas_params, Len(hash_arg.value)),
        ret |-> <<digest("Sha3_256", hash_arg.value)>>,
        arguments |-> hash_arg.arguments]

\* make_all, lines 176-183: the natives of the module by name, each made
\* with its gas parameters.
HashNatives == {"sha2_256", "sha3_256"}

native_hash(name, gas_params, arguments) ==
    IF name = "sha2_256" THEN native_sha2_256(gas_params, arguments)
    ELSE native_sha3_256(gas_params, arguments)

\* Keccak256HashGasParameters
KeccakGasParameters == [base : {0, 50}, per_byte : {0, 2}]

\* crate::ecrecover::keccak
keccak(input) == digest("Keccak256", input)

\* Variant: short inputs are charged more than long ones.
keccak_256_cost_decreasing(gas_params, len) ==
    gas_params.base + gas_params.per_byte * (MaxInputLen + 1 - len)

\* native_keccak_256, line 160: the cost charged.
keccak_256_cost(gas_params, len) == gas_params.base + gas_params.per_byte * len

\* native_keccak_256(gas_params, _context, _ty_args, arguments), lines
\* 149-165
native_keccak_256(gas_params, arguments) ==
    LET input_arg == pop_arg(arguments)
    IN [cost |-> keccak_256_cost(gas_params, Len(input_arg.value)),
        ret |-> <<keccak(input_arg.value)>>,
        arguments |-> input_arg.arguments]

\* The interpreter calls a hash native with one byte vector.
HashCall ==
    /\ native = NativeIdle
    /\ \E name \in HashNatives, gas_params \in HashGasParameters,
          input \in HashInputs :
         \E r \in {native_hash(name, gas_params, <<input>>)} :
            native' = [op |-> name, gas_params |-> gas_params,
                       called_with |-> <<input>>, arguments |-> r.arguments,
                       cost |-> r.cost, ret |-> r.ret]
    /\ UNCHANGED <<pubVars, sessVars, entry, tables, task>>

\* The native's result is taken by the interpreter.
NativeReturn ==
    /\ native # NativeIdle
    /\ native' = NativeIdle
    /\ UNCHANGED <<pubVars, sessVars, entry, tables, task>>

\* native_keccak_256 is called with one byte vector.
KeccakCall ==
    /\ native = NativeIdle
    /\ \E gas_params \in KeccakGasParameters, input \in HashInputs :
         \E r \in {native_keccak_256(gas_params, <<input>>)} :
            native' = [op |-> "keccak_256", gas_params |-> gas_params,
                       called_with |-> <<input>>, arguments |-> r.arguments,
                       cost |-> r.cost, ret |-> r.ret]
    /\ UNCHANGED <<pubVars, sessVars, entry, tables, task>>

\* ---------------------------------------------------------------------
\* The vector natives (move-stdlib/src/natives/vector.rs).

\* The bound of the vectors a native is called on; their elements are u64
\* values.
MaxVecLen == 2
Vectors == SeqsUpTo({1, 2}, MaxVecLen)

\* A value on the operand stack: a u64 <<n>>, the reference to the vector
\* the call works on, a vector held by value (its elements), a bool (<<0>>
\* or <<1>>), the reference to the element at an index.
Value(tag, v) == [tag |-> tag, v |-> v]

\* PartialVMError::new(major_status); all_data gives the major status, the
\* sub status, the message, the execution state (each present or not: a
\* set of at most one element), the indices and the code offsets.
PartialVMError(major_status) ==
    [major_status |-> major_status, sub_status |-> {}, message |-> {},
     exec_state |-> {}, indices |-> <<>>, offsets |-> <<>>]

\* vm_status::sub_status: the codes of the vector operations and of the
\* string natives, pairwise distinct and different from 0.
sub_status ==
    [INDEX_OUT_OF_BOUNDS |-> 1, POP_EMPTY_VEC |-> 2,
     DESTROY_NON_EMPTY_VEC |-> 3, NFE_STRING_INVALID_ARG_FAILURE |-> 4]

\* The errors native_error_to_abort can be given.
PartialVMErrors ==
    [major_status : {"VECTOR_OPERATION_ERROR", "INTERNAL_TYPE_ERROR",
                     "UNKNOWN_INVARIANT_VIOLATION_ERROR"},
     sub_status : {{}, {sub_status.INDEX_OUT_OF_BOUNDS},
                   {sub_status.POP_EMPTY_VEC}},
     message : {{}, {"index out of bounds"}},
     exec_state : {{}, {"stacktrace"}},
     indices : {<<>>, <<7>>},
     offsets : {<<>>, <<3>>, <<3, 5>>}]

\* The same conversion, losing the sub status.
native_error_to_abort_without_sub_status(err) ==
    [PartialVMError(IF err.major_status = "VECTOR_OPERATION_ERROR"
                    THEN "ABORTED" ELSE err.major_status)
        EXCEPT !.message = err.message, !.exec_state = err.exec_state,
               !.indices = err.indices, !.offsets = err.offsets]

\* The same conversion, every error becoming an abort.
native_error_to_abort_any_major(err) ==
    [err EXCEPT !.major_status = "ABORTED"]

\* native_error_to_abort(err), lines 426-446
native_error_to_abort(err) ==
    LET new_err0 ==
            IF err.major_status = "VECTOR_OPERATION_ERROR"
            THEN PartialVMError("ABORTED")
            ELSE PartialVMError(err.major_status)
        new_err1 ==
            IF err.sub_status = {} THEN new_err0
            ELSE [new_err0 EXCEPT !.sub_status = err.sub_status]
        new_err2 ==
            IF err.message = {} THEN new_err1
            ELSE [new_err1 EXCEPT !.message = err.message]
        new_err3 ==
            IF err.exec_state = {} THEN new_err2
            ELSE [new_err2 EXCEPT !.exec_state = err.exec_state]
    IN [new_err3 EXCEPT !.indices = err.indices, !.offsets = err.offsets]

\* An error of the container layer is converted.
ErrorToAbort ==
    /\ native = NativeIdle
    /\ \E err \in PartialVMErrors :
         native' = [op |-> "native_error_to_abort", err |-> err,
                    new_err |-> native_error_to_abort(err)]
    /\ UNCHANGED <<pubVars, sessVars, entry, tables, task>>

\* What a container operation gives back: Ok(value) or Err(err), the
\* vector after the operation and the memory size the operation measured;
\* remapped tells whether the error has gone through native_error_to_abort.
ContainerOk(value, vec, memory_cost) ==
    [ok |-> TRUE, err |-> PartialVMError("EXECUTED"), value |-> value,
     vec |-> vec, memory_cost |-> memory_cost, remapped |-> FALSE]

ContainerErr(err, vec) ==
    [ok |-> FALSE, err |-> err, value |-> <<>>, vec |-> vec,
     memory_cost |-> 0, remapped |-> FALSE]

\* The container layer behind VectorRef and Vector (len, push_back,
\* borrow_elem, pop, spawn_from, destroy_empty, swap, append, remove,
\* reverse) on a vector<u64>: an index out of range, a pop of an empty
\* vector and the destruction of a non-empty one are vector operation
\* errors that are found before anything is changed.
container(op, vec, a, b) ==
    LET out_of_bounds ==
            ContainerErr([PartialVMError("VECTOR_OPERATION_ERROR")
                            EXCEPT !.sub_status =
                                      {sub_status.INDEX_OUT_OF_BOUNDS}],
                         vec)
    IN CASE op = "len" ->
              ContainerOk(<<Value("u64", <<Len(vec)>>)>>, vec, 0)
         [] op = "push_back" ->
              IF a.tag = "u64"
              THEN ContainerOk(<<>>, Append(vec, a.v[1]), 0)
              ELSE ContainerErr(
                      PartialVMError("UNKNOWN_INVARIANT_VIOLATION_ERROR"),
                      vec)
         [] op = "borrow_elem" ->
              IF a >= Len(vec) THEN out_of_bounds
              ELSE ContainerOk(<<Value("reference", <<a>>)>>, vec, 0)
         [] op = "pop" ->
              IF vec = <<>>
              THEN ContainerErr([PartialVMError("VECTOR_OPERATION_ERROR")
                                   EXCEPT !.sub_status =
                                             {sub_status.POP_EMPTY_VEC}],
                                vec)
              ELSE ContainerOk(<<Value("u64", <<vec[Len(vec)]>>)>>,
                               SubSeq(vec, 1, Len(vec) - 1), 0)
         [] op = "spawn_from" ->
              IF a + b > Len(vec) THEN out_of_bounds
              ELSE ContainerOk(<<Value("vector", SubSeq(vec, a + 1, a + b))>>,
                               vec, 8 * b)
         [] op = "destroy_empty" ->
              IF a # <<>>
              THEN ContainerErr([PartialVMError("VECTOR_OPERATION_ERROR")
                                   EXCEPT !.sub_status =
                                             {sub_status.DESTROY_NON_EMPTY_VEC}],
                                vec)
              ELSE ContainerOk(<<>>, vec, 0)
         [] op = "swap" ->
              IF a >= Len(vec) \/ b >= Len(vec) THEN out_of_bounds
              ELSE ContainerOk(<<>>,
                               [vec EXCEPT ![a + 1] = vec[b + 1],
                                           ![b + 1] = vec[a + 1]], 0)
         [] op = "append" ->
              ContainerOk(<<>>, vec \o a, 8 * Len(a))
         [] op = "remove" ->
              IF a >= Len(vec) THEN out_of_bounds
              ELSE ContainerOk(<<Value("u64", <<vec[a + 1]>>)>>,
                               SubSeq(vec, 1, a)
                                  \o SubSeq(vec, a + 2, Len(vec)),
                               8 * (Len(vec) - a - 1))
         [] op = "reverse" ->
              ContainerOk(<<>>,
                          [k \in 1 .. Len(vec) |-> vec[Len(vec) + 1 - k]],
                          (8 * Len(vec)) \div 2)

\* Value::legacy_abstract_memory_size
legacy_abstract_memory_size(e) ==
    CASE e.tag = "bool" -> 1
      [] e.tag = "vector" -> 8 * Len(e.v)
      [] OTHER -> 8

\* .map_err(native_error_to_abort)
map_err(res) ==
    IF res.ok THEN res
    ELSE [res EXCEPT !.err = native_error_to_abort(res.err),
                     !.remapped = TRUE]

\* What a native gives back: Ok(NativeResult::ok(cost, values)),
\* Ok(NativeResult::err(cost, abort_code)) or Err(err); remapped tells
\* whether it comes of a container error that native_error_to_abort
\* converted.
NativeResult(kind, cost, ret, code, err) ==
    [kind |-> kind, cost |-> cost, ret |-> ret, code |-> code, err |-> err,
     remapped |-> FALSE]

\* NativeResult::map_partial_vm_result_one and map_partial_vm_result_empty:
\* Ok becomes a success with the values, an error whose major status is
\* ABORTED becomes an abort with its sub status (0 when it has none), any
\* other error is returned as it is.
map_partial_vm_result(cost, res, values) ==
    IF res.ok
    THEN NativeResult("ok", cost, values, 0, res.err)
    ELSE IF res.err.major_status = "ABORTED"
    THEN [NativeResult("abort", cost, <<>>,
                       IF res.err.sub_status = {} THEN 0
                       ELSE CHOOSE code \in res.err.sub_status : TRUE,
                       PartialVMError("EXECUTED"))
            EXCEPT !.remapped = res.remapped]
    ELSE [NativeResult("fault", 0, <<>>, 0, res.err)
            EXCEPT !.remapped = res.remapped]

map_partial_vm_result_one(cost, res) ==
    map_partial_vm_result(cost, res, res.value)

map_partial_vm_result_empty(cost, res) ==
    map_partial_vm_result(cost, res, <<>>)

\* value_as::<T>, as pop_arg!(args, T) and `value_as()?` use it: the value
\* when its tag is T's, otherwise an error the native returns at once.
value_as(p, tag) ==
    [ok |-> p.value.tag = tag, err |-> PartialVMError("INTERNAL_TYPE_ERROR"),
     value |-> p.value, arguments |-> p.arguments]

\* A native returns Err(err) with `?`: what it has not popped stays in the
\* argument queue, the vector is as it was.
Err(err, arguments, vec) ==
    [res |-> NativeResult("fault", 0, <<>>, 0, err),
     arguments |-> arguments, vec |-> vec]

\* native_empty, lines 33-42
native_empty(gas_params, ty_args, args, vec) ==
    [res |-> map_partial_vm_result_one(
                 gas_params.base,
                 ContainerOk(<<Value("vector", <<>>)>>, vec, 0)),
     arguments |-> args, vec |-> vec]

\* native_length, lines 63-74
native_length(gas_params, ty_args, args, vec) ==
    LET r == value_as(pop_arg(args), "vector_ref")
    IN IF ~r.ok THEN Err(r.err, r.arguments, vec)
       ELSE [res |-> map_partial_vm_result_one(gas_params.base,
                                               container("len", vec, 0, 0)),
             arguments |-> r.arguments, vec |-> vec]

\* native_push_back, lines 96-115
native_push_back(gas_params, ty_args, args, vec) ==
    LET e == pop_arg(args)
        r == value_as(pop_arg(e.arguments), "vector_ref")
        cost == IF gas_params.legacy_per_abstract_memory_unit # 0
                THEN gas_params.base
                       + gas_params.legacy_per_abstract_memory_unit
                           * max(legacy_abstract_memory_size(e.value), 1)
                ELSE gas_params.base
        res == container("push_back", vec, e.value, 0)
    IN IF ~r.ok THEN Err(r.err, r.arguments, vec)
       ELSE [res |-> map_partial_vm_result_empty(cost, res),
             arguments |-> r.arguments, vec |-> res.vec]

\* The same native, returning the container's error as it is.
native_borrow_unmapped(gas_params, ty_args, args, vec) ==
    LET idx == value_as(pop_arg(args), "u64")
        r == value_as(pop_arg(idx.arguments), "vector_ref")
        res == container("borrow_elem", vec, idx.value.v[1], 0)
    IN IF ~idx.ok THEN Err(idx.err, idx.arguments, vec)
       ELSE IF ~r.ok THEN Err(r.err, r.arguments, vec)
       ELSE [res |-> map_partial_vm_result_one(gas_params.base, res),
             arguments |-> r.arguments, vec |-> res.vec]

\* native_borrow, lines 136-152
native_borrow(gas_params, ty_args, args, vec) ==
    LET idx == value_as(pop_arg(args), "u64")
        r == value_as(pop_arg(idx.arguments), "vector_ref")
        res == container("borrow_elem", vec, idx.value.v[1], 0)
    IN IF ~idx.ok THEN Err(idx.err, idx.arguments, vec)
       ELSE IF ~r.ok THEN Err(r.err, r.arguments, vec)
       ELSE [res |-> map_partial_vm_result_one(
                         gas_params.base,
                         map_err(res)),
             arguments |-> r.arguments, vec |-> res.vec]

\* The same native, returning the container's error as it is.
native_pop_back_unmapped(gas_params, ty_args, args, vec) ==
    LET r == value_as(pop_arg(args), "vector_ref")
        res == container("pop", vec, 0, 0)
    IN IF ~r.ok THEN Err(r.err, r.arguments, vec)
       ELSE [res |-> map_partial_vm_result_one(gas_params.base, res),
             arguments |-> r.arguments, vec |-> res.vec]

\* native_pop_back, lines 173-187
native_pop_back(gas_params, ty_args, args, vec) ==
    LET r == value_as(pop_arg(args), "vector_ref")
        res == container("pop", vec, 0, 0)
    IN IF ~r.ok THEN Err(r.err, r.arguments, vec)
       ELSE [res |-> map_partial_vm_result_one(
                         gas_params.base,
                         map_err(res)),
             arguments |-> r.arguments, vec |-> res.vec]

\* native_spawn_from, lines 211-232
native_spawn_from(gas_params, ty_args, args, vec) ==
    LET len == value_as(pop_arg(args), "u64")
        offset == value_as(pop_arg(len.arguments), "u64")
        r == value_as(pop_arg(offset.arguments), "vector_ref")
        res == container("spawn_from", vec, offset.value.v[1], len.value.v[1])
        cost == IF gas_params.legacy_per_abstract_memory_unit # 0
                THEN gas_params.base
                       + gas_params.legacy_per_abstract_memory_unit
                           * max(res.memory_cost, 1)
                ELSE gas_params.base
    IN IF ~len.ok THEN Err(len.err, len.arguments, vec)
       ELSE IF ~offset.ok THEN Err(offset.err, offset.arguments, vec)
       ELSE IF ~r.ok THEN Err(r.err, r.arguments, vec)
       ELSE [res |-> map_partial_vm_result_one(
                         cost, map_err(res)),
             arguments |-> r.arguments, vec |-> res.vec]

\* The same native, charging nothing when it aborts.
native_destroy_empty_free_abort(gas_params, ty_args, args, vec) ==
    LET v == value_as(pop_arg(args), "vector")
        res == container("destroy_empty", vec, v.value.v, 0)
    IN IF ~v.ok THEN Err(v.err, v.arguments, vec)
       ELSE [res |-> map_partial_vm_result_empty(
                         IF res.ok THEN gas_params.base ELSE 0,
                         map_err(res)),
             arguments |-> v.arguments, vec |-> res.vec]

\* native_destroy_empty, lines 245-259
native_destroy_empty(gas_params, ty_args, args, vec) ==
    LET v == value_as(pop_arg(args), "vector")
        res == container("destroy_empty", vec, v.value.v, 0)
    IN IF ~v.ok THEN Err(v.err, v.arguments, vec)
       ELSE [res |-> map_partial_vm_result_empty(
                         gas_params.base,
                         map_err(res)),
             arguments |-> v.arguments, vec |-> res.vec]

\* The same native, swapping whatever is in range before it fails.
native_swap_partial(gas_params, ty_args, args, vec) ==
    LET idx2 == value_as(pop_arg(args), "u64")
        idx1 == value_as(pop_arg(idx2.arguments), "u64")
        r == value_as(pop_arg(idx1.arguments), "vector_ref")
        res == container("swap", vec, idx1.value.v[1], idx2.value.v[1])
    IN IF ~idx2.ok THEN Err(idx2.err, idx2.arguments, vec)
       ELSE IF ~idx1.ok THEN Err(idx1.err, idx1.arguments, vec)
       ELSE IF ~r.ok THEN Err(r.err, r.arguments, vec)
       ELSE [res |-> map_partial_vm_result_empty(
                         gas_params.base,
                         map_err(res)),
             arguments |-> r.arguments,
             vec |-> IF res.ok \/ idx1.value.v[1] >= Len(vec) THEN res.vec
                     ELSE [vec EXCEPT ![idx1.value.v[1] + 1] = 0]]

\* native_swap, lines 277-294
native_swap(gas_params, ty_args, args, vec) ==
    LET idx2 == value_as(pop_arg(args), "u64")
        idx1 == value_as(pop_arg(idx2.arguments), "u64")
        r == value_as(pop_arg(idx1.arguments), "vector_ref")
        res == container("swap", vec, idx1.value.v[1], idx2.value.v[1])
    IN IF ~idx2.ok THEN Err(idx2.err, idx2.arguments, vec)
       ELSE IF ~idx1.ok THEN Err(idx1.err, idx1.arguments, vec)
       ELSE IF ~r.ok THEN Err(r.err, r.arguments, vec)
       ELSE [res |-> map_partial_vm_result_empty(
                         gas_params.base,
                         map_err(res)),
             arguments |-> r.arguments, vec |-> res.vec]

\* native_append, lines 316-335
native_append(gas_params, ty_args, args, vec) ==
    LET e0 == pop_arg(args)
        r == value_as(pop_arg(e0.arguments), "vector_ref")
        e == value_as([value |-> e0.value, arguments |-> r.arguments],
                      "vector")
        res == container("append", vec, e.value.v, 0)
        cost == IF gas_params.legacy_per_abstract_memory_unit # 0
                THEN gas_params.base
                       + gas_params.legacy_per_abstract_memory_unit
                           * res.memory_cost
                ELSE gas_params.base
    IN IF ~r.ok THEN Err(r.err, r.arguments, vec)
       ELSE IF ~e.ok THEN Err(e.err, e.arguments, vec)
       ELSE [res |-> map_partial_vm_result_empty(
                         cost, map_err(res)),
             arguments |-> r.arguments, vec |-> res.vec]

\* The same native, taking a bool for an index.
native_remove_coercing(gas_params, ty_args, args, vec) ==
    LET idx == value_as(pop_arg(args), "u64")
        r == value_as(pop_arg(idx.arguments), "vector_ref")
        res == container("remove", vec, idx.value.v[1], 0)
        cost == IF gas_params.legacy_per_abstract_memory_unit # 0
                THEN gas_params.base
                       + gas_params.legacy_per_abstract_memory_unit
                           * max(res.memory_cost, 1)
                ELSE gas_params.base
    IN IF ~idx.ok /\ idx.value.tag # "bool"
       THEN Err(idx.err, idx.arguments, vec)
       ELSE IF ~r.ok THEN Err(r.err, r.arguments, vec)
       ELSE [res |-> map_partial_vm_result_one(
                         cost, map_err(res)),
             arguments |-> r.arguments, vec |-> res.vec]

\* native_remove, lines 357-376
native_remove(gas_params, ty_args, args, vec) ==
    LET idx == value_as(pop_arg(args), "u64")
        r == value_as(pop_arg(idx.arguments), "vector_ref")
        res == container("remove", vec, idx.value.v[1], 0)
        cost == IF gas_params.legacy_per_abstract_memory_unit # 0
                THEN gas_params.base
                       + gas_params.legacy_per_abstract_memory_unit
                           * max(res.memory_cost, 1)
                ELSE gas_params.base
    IN IF ~idx.ok THEN Err(idx.err, idx.arguments, vec)
       ELSE IF ~r.ok THEN Err(r.err, r.arguments, vec)
       ELSE [res |-> map_partial_vm_result_one(
                         cost, map_err(res)),
             arguments |-> r.arguments, vec |-> res.vec]

\* The same native, charging for the measured size even when it is 0.
native_reverse_without_max(gas_params, ty_args, args, vec) ==
    LET r == value_as(pop_arg(args), "vector_ref")
        res == container("reverse", vec, 0, 0)
        cost == gas_params.base
                  + gas_params.legacy_per_abstract_memory_unit
                      * res.memory_cost
    IN IF ~r.ok THEN Err(r.err, r.arguments, vec)
       ELSE [res |-> map_partial_vm_result_empty(cost, map_err(res)),
             arguments |-> r.arguments, vec |-> res.vec]

\* native_reverse, lines 398-416
native_reverse(gas_params, ty_args, args, vec) ==
    LET r == value_as(pop_arg(args), "vector_ref")
        res == container("reverse", vec, 0, 0)
        cost == IF gas_params.legacy_per_abstract_memory_unit # 0
                THEN gas_params.base
                       + gas_params.legacy_per_abstract_memory_unit
                           * max(res.memory_cost, 1)
                ELSE gas_params.base
    IN IF ~r.ok THEN Err(r.err, r.arguments, vec)
       ELSE [res |-> map_partial_vm_result_empty(
                         cost, map_err(res)),
             arguments |-> r.arguments, vec |-> res.vec]

\* make_all, lines 466-486: the natives of the module by name; borrow and
\* borrow_mut are the same function.
VectorNatives ==
    {"empty", "length", "push_back", "borrow", "borrow_mut", "pop_back",
     "spawn_from", "destroy_empty", "swap", "native_append",
     "native_remove", "native_reverse"}

vector_native(name, gas_params, ty_args, args, vec) ==
    CASE name = "empty" -> native_empty(gas_params, ty_args, args, vec)
      [] name = "length" -> native_length(gas_params, ty_args, args, vec)
      [] name = "push_back" ->
           native_push_back(gas_params, ty_args, args, vec)
      [] name \in {"borrow", "borrow_mut"} ->
           native_borrow(gas_params, ty_args, args, vec)
      [] name = "pop_back" -> native_pop_back(gas_params, ty_args, args, vec)
      [] name = "spawn_from" ->
           native_spawn_from(gas_params, ty_args, args, vec)
      [] name = "destroy_empty" ->
           native_destroy_empty(gas_params, ty_args, args, vec)
      [] name = "swap" -> native_swap(gas_params, ty_args, args, vec)
      [] name = "native_append" ->
           native_append(gas_params, ty_args, args, vec)
      [] name = "native_remove" ->
           native_remove(gas_params, ty_args, args, vec)
      [] name = "native_reverse" ->
           native_reverse(gas_params, ty_args, args, vec)

\* The number of arguments each native is declared with (the
\* debug_assert on args.len() of each native).
declared_args(name) ==
    CASE name = "empty" -> 0
      [] name \in {"length", "pop_back", "destroy_empty", "native_reverse"}
           -> 1
      [] name \in {"push_back", "borrow", "borrow_mut", "native_append",
                   "native_remove"} -> 2
      [] name \in {"spawn_from", "swap"} -> 3

\* The gas parameters of a vector native and the values it can be called
\* with: indices in and out of range, the reference to the vector,
\* vectors by value, a bool.
VectorGasParameters ==
    [base : {0, 10}, legacy_per_abstract_memory_unit : {0, 3}]

ValuePool ==
    {Value("u64", <<n>>) : n \in 0 .. MaxVecLen + 1}
        \cup {Value("vector", s) : s \in {<<>>, <<1>>}}
        \cup {Value("vector_ref", <<>>), Value("bool", <<1>>)}

\* A vector native is called on a vector with as many arguments as it
\* declares.
VectorCall ==
    /\ native = NativeIdle
    /\ \E name \in VectorNatives, gas_params \in VectorGasParameters,
          vec \in Vectors :
         \E args \in [1 .. declared_args(name) -> ValuePool] :
            \E r \in {vector_native(name, gas_params, <<"u64">>, args, vec)} :
               native' = [op |-> name, gas_params |-> gas_params,
                          called_with |-> args, vec |-> vec,
                          arguments |-> r.arguments, res |-> r.res,
                          vec_after |-> r.vec]
    /\ UNCHANGED <<pubVars, sessVars, entry, tables, task>>

\* ---------------------------------------------------------------------
\* The string natives (move-stdlib/src/natives/string.rs).

\* The bound of the byte strings; their bytes are 'a' (97) and the two
\* bytes of U+00E9 (195, 169).
MaxStrLen == 3
Bytes == SeqsUpTo({97, 195, 169}, MaxStrLen)

\* std::str::from_utf8(s).is_ok(): every lead byte 195 is followed by the
\* continuation byte 169 and every continuation byte follows its lead byte.
from_utf8_is_ok(s) ==
    \A k \in DOMAIN s :
        /\ s[k] = 195 => (k < Len(s) /\ s[k + 1] = 169)
        /\ s[k] = 169 => (k > 1 /\ s[k - 1] = 195)

\* The strings the string module holds: valid utf8.
Strings == {s \in Bytes : from_utf8_is_ok(s)}

\* str::is_char_boundary(i)
is_char_boundary(s, i) ==
    IF i = 0 THEN TRUE
    ELSE IF i >= Len(s) THEN i = Len(s)
    ELSE s[i + 1] # 169

\* str::find(r): the first byte position where r occurs in s, if any.
find(s, r) ==
    {k \in 0 .. Len(s) - Len(r) :
        /\ SubSeq(s, k + 1, k + Len(r)) = r
        /\ \A h \in 0 .. k - 1 : SubSeq(s, h + 1, h + Len(r)) # r}

\* context.cost_table() and native_gas(table, key, size): the cost the
\* table has for the native, times the size when that is more than 1.
CostTables ==
    {[STRING_CHECK_UT8 |-> b + 1, SRING_CHAR_BOUNDARY |-> b + 2,
      STRING_SUB_STR |-> b + 3, STRING_INDEX_OF |-> b + 4] : b \in {0, 10}}

native_gas(cost_table, key, size) == cost_table[key] * max(1, size)

\* native_check_utf8, lines 33-49
native_check_utf8(cost_table, arguments) ==
    LET s_arg == value_as(pop_arg(arguments), "vector_u8")
        ok == from_utf8_is_ok(s_arg.value.v)
        cost == native_gas(cost_table, "STRING_CHECK_UT8", 0)
    IN IF ~s_arg.ok THEN Err(s_arg.err, s_arg.arguments, <<>>)
       ELSE [res |-> map_partial_vm_result_one(
                         cost,
                         ContainerOk(<<Value("bool",
                                             <<IF ok THEN 1 ELSE 0>>)>>,
                                     <<>>, 0)),
             arguments |-> s_arg.arguments, vec |-> <<>>]

\* native_is_char_boundary, lines 57-76
native_is_char_boundary(cost_table, arguments) ==
    LET i == value_as(pop_arg(arguments), "u64")
        s_arg == value_as(pop_arg(i.arguments), "vector_u8")
        ok == is_char_boundary(s_arg.value.v, i.value.v[1])
        cost == native_gas(cost_table, "SRING_CHAR_BOUNDARY", 0)
    IN IF ~i.ok THEN Err(i.err, i.arguments, <<>>)
       ELSE IF ~s_arg.ok THEN Err(s_arg.err, s_arg.arguments, <<>>)
       ELSE [res |-> map_partial_vm_result_one(
                         cost,
                         ContainerOk(<<Value("bool",
                                             <<IF ok THEN 1 ELSE 0>>)>>,
                                     <<>>, 0)),
             arguments |-> s_arg.arguments, vec |-> <<>>]

\* native_sub_string, lines 85-113: with j < i the native returns before
\* it pops the string; the slice s_str[i..j] panics unless i and j are
\* character boundaries of the string.
native_sub_string(cost_table, arguments) ==
    LET j == value_as(pop_arg(arguments), "u64")
        i == value_as(pop_arg(j.arguments), "u64")
        cost == native_gas(cost_table, "STRING_SUB_STR", 0)
        s_arg == value_as(pop_arg(i.arguments), "vector_u8")
        s_str == s_arg.value.v
        from == i.value.v[1]
        to == j.value.v[1]
    IN IF ~j.ok THEN Err(j.err, j.arguments, <<>>)
       ELSE IF ~i.ok THEN Err(i.err, i.arguments, <<>>)
       ELSE IF to < from
       THEN [res |-> NativeResult("abort", cost, <<>>,
                                  sub_status.NFE_STRING_INVALID_ARG_FAILURE,
                                  PartialVMError("EXECUTED")),
             arguments |-> i.arguments, vec |-> <<>>]
       ELSE IF ~s_arg.ok THEN Err(s_arg.err, s_arg.arguments, <<>>)
       ELSE IF ~(is_char_boundary(s_str, from) /\ is_char_boundary(s_str, to))
       THEN [res |-> NativeResult("panic", 0, <<>>, 0,
                                  PartialVMError("EXECUTED")),
             arguments |-> s_arg.arguments, vec |-> <<>>]
       ELSE [res |-> map_partial_vm_result_one(
                         cost,
                         ContainerOk(<<Value("vector_u8",
                                             SubSeq(s_str, from + 1, to))>>,
                                     <<>>, 0)),
             arguments |-> s_arg.arguments, vec |-> <<>>]

\* native_index_of, lines 122-143
native_index_of(cost_table, arguments) ==
    LET r_arg == value_as(pop_arg(arguments), "vector_u8")
        s_arg == value_as(pop_arg(r_arg.arguments), "vector_u8")
        found == find(s_arg.value.v, r_arg.value.v)
        pos == IF found = {} THEN Len(s_arg.value.v)
               ELSE CHOOSE size \in found : TRUE
        cost == native_gas(cost_table, "STRING_INDEX_OF", 0)
    IN IF ~r_arg.ok THEN Err(r_arg.err, r_arg.arguments, <<>>)
       ELSE IF ~s_arg.ok THEN Err(s_arg.err, s_arg.arguments, <<>>)
       ELSE [res |-> map_partial_vm_result_one(
                         cost, ContainerOk(<<Value("u64", <<pos>>)>>,
                                           <<>>, 0)),
             arguments |-> s_arg.arguments, vec |-> <<>>]

\* A string native is called by the string module: check_utf8 with any
\* bytes, the others with the bytes of a string and indices.
StringCall ==
    /\ native = NativeIdle
    /\ \E cost_table \in CostTables :
         \/ \E s \in Bytes :
               \E args \in {<<Value("vector_u8", s)>>} :
               \E r \in {native_check_utf8(cost_table, args)} :
                  native' = [op |-> "check_utf8", cost_table |-> cost_table,
                             called_with |-> args,
                             arguments |-> r.arguments, res |-> r.res]
         \/ \E s \in Strings, i \in 0 .. MaxStrLen + 1 :
               \E args \in {<<Value("vector_u8", s), Value("u64", <<i>>)>>} :
               \E r \in {native_is_char_boundary(cost_table, args)} :
                  native' = [op |-> "is_char_boundary",
                             cost_table |-> cost_table, called_with |-> args,
                             arguments |-> r.arguments, res |-> r.res]
         \/ \E s \in Strings, i \in 0 .. MaxStrLen + 1,
               j \in 0 .. MaxStrLen + 1 :
               \E args \in {<<Value("vector_u8", s), Value("u64", <<i>>),
                              Value("u64", <<j>>)>>} :
               \E r \in {native_sub_string(cost_table, args)} :
                  native' = [op |-> "sub_string", cost_table |-> cost_table,
                             called_with |-> args,
                             arguments |-> r.arguments, res |-> r.res]
         \/ \E s \in Strings, r_str \in Strings :
               \E args \in {<<Value("vector_u8", s),
                              Value("vector_u8", r_str)>>} :
               \E r \in {native_index_of(cost_table, args)} :
                  native' = [op |-> "index_of", cost_table |-> cost_table,
                             called_with |-> args,
                             arguments |-> r.arguments, res |-> r.res]
    /\ UNCHANGED <<pubVars, sessVars, entry, tables, task>>

NativeNext ==
    \/ HashCall
    \/ KeccakCall
    \/ ErrorToAbort
    \/ VectorCall
    \/ StringCall
    \/ NativeReturn

SpecNative == Init /\ [][NativeNext]_vars

HashCalled == native.op \in HashNatives
InputLen == Len(native.called_with[1])

\* C20: the gas cost sha2_256 and sha3_256 charge for an input of len bytes
\* is base + per_byte * max(len, legacy_min_input_len); with base 50,
\* per_byte 2 and legacy_min_input_len 10 it is 70 for 3 bytes and 90 for 20
\* bytes.
C20_HashGas ==
    HashCalled =>
        /\ InputLen >= native.gas_params.legacy_min_input_len =>
              native.cost = native.gas_params.base
                              + native.gas_params.per_byte * InputLen
        /\ InputLen < native.gas_params.legacy_min_input_len =>
              native.cost = native.gas_params.base
                              + native.gas_params.per_byte
                                  * native.gas_params.legacy_min_input_len
        /\ native.gas_params = [base |-> 50, per_byte |-> 2,
                                legacy_min_input_len |-> 10] =>
              /\ InputLen = 3 => native.cost = 70
              /\ InputLen = 20 => native.cost = 90

\* sha3_256 of a 3-byte input with base 50, per_byte 2 and
\* legacy_min_input_len 10.
C20_Witness ==
    /\ native.op = "sha3_256"
    /\ native.gas_params = [base |-> 50, per_byte |-> 2,
                            legacy_min_input_len |-> 10]
    /\ InputLen = 3
    /\ native.cost = 70

\* The cost the native just called charges, under the same gas parameters,
\* for an input of len bytes.
CostAt(len) ==
    CASE native.op = "sha2_256" -> sha2_256_cost(native.gas_params, len)
      [] native.op = "sha3_256" -> sha3_256_cost(native.gas_params, len)
      [] native.op = "keccak_256" -> keccak_256_cost(native.gas_params, len)

HashingCalled == native.op \in {"sha2_256", "sha3_256", "keccak_256"}

\* C21: for sha2_256, sha3_256 and keccak_256 and fixed gas parameters the
\* gas cost is non-decreasing in the input length: every shorter input costs
\* at most what the input just hashed cost.
C21_HashGasMonotone ==
    HashingCalled =>
        /\ native.cost = CostAt(InputLen)
        /\ \A len1 \in 0 .. InputLen : CostAt(len1) <= native.cost
        /\ \A len1 \in 0 .. InputLen :
              \A len2 \in len1 .. InputLen : CostAt(len1) <= CostAt(len2)

\* keccak_256 of a 20-byte input with a per-byte price: every shorter input
\* is cheaper.
C21_Witness ==
    /\ native.op = "keccak_256"
    /\ native.gas_params.per_byte = 2
    /\ InputLen = 20
    /\ CostAt(3) < native.cost


Converted == native.op = "native_error_to_abort"

\* C23: native_error_to_abort turns an error whose major status is
\* VECTOR_OPERATION_ERROR into one whose major status is ABORTED and whose
\* sub status, message, execution state, indices and code offsets are those
\* of the input, each present exactly when the input's is.
C23_VectorErrorToAbort ==
    (Converted /\ native.err.major_status = "VECTOR_OPERATION_ERROR") =>
        /\ native.new_err.major_status = "ABORTED"
        /\ native.new_err.sub_status = native.err.sub_status
        /\ native.new_err.message = native.err.message
        /\ native.new_err.exec_state = native.err.exec_state
        /\ native.new_err.indices = native.err.indices
        /\ native.new_err.offsets = native.err.offsets

C23_Witness ==
    /\ Converted
    /\ native.err.major_status = "VECTOR_OPERATION_ERROR"
    /\ native.err.sub_status = {sub_status.INDEX_OUT_OF_BOUNDS}
    /\ native.err.message # {}
    /\ native.err.exec_state = {}
    /\ native.err.offsets = <<3, 5>>
    /\ native.new_err.major_status = "ABORTED"


VectorCalled == native.op \in VectorNatives

\* The types a vector native pops its arguments as, in declaration order
\* (the element push_back takes is popped untyped).
Expected(name) ==
    CASE name = "empty" -> <<>>
      [] name \in {"length", "pop_back", "native_reverse"} -> <<"vector_ref">>
      [] name = "destroy_empty" -> <<"vector">>
      [] name = "push_back" -> <<"vector_ref", "any">>
      [] name \in {"borrow", "borrow_mut", "native_remove"} ->
           <<"vector_ref", "u64">>
      [] name = "native_append" -> <<"vector_ref", "vector">>
      [] name \in {"spawn_from", "swap"} -> <<"vector_ref", "u64", "u64">>

WronglyTyped(i) ==
    /\ Expected(native.op)[i] # "any"
    /\ native.called_with[i].tag # Expected(native.op)[i]

WellTyped ==
    /\ VectorCalled
    /\ \A i \in DOMAIN native.called_with : ~WronglyTyped(i)

\* The u64 given as the i-th argument.
Arg(i) == native.called_with[i].v[1]

\* C22: borrow and borrow_mut called with an index idx >= length(v) end in
\* an abort (the error's major status is ABORTED, not the container's
\* VECTOR_OPERATION_ERROR, and nothing is returned) and leave v as it was.
C22_BorrowOutOfRange ==
    (native.op \in {"borrow", "borrow_mut"} /\ WellTyped
        /\ Arg(2) >= Len(native.vec)) =>
        /\ native.res.kind = "abort"
        /\ native.res.code = sub_status.INDEX_OUT_OF_BOUNDS
        /\ native.res.ret = <<>>
        /\ native.vec_after = native.vec

C22_Witness ==
    /\ native.op = "borrow_mut"
    /\ WellTyped
    /\ native.vec = <<1, 2>>
    /\ Arg(2) = 2
    /\ native.res.kind = "abort"

\* C24: a swap with an index out of range, a remove with the index out of
\* range and a pop_back of an empty vector fail and leave the vector
\* exactly as it was.
C24_FailedMutationKeepsVector ==
    (WellTyped
        /\ \/ /\ native.op = "swap"
              /\ (Arg(2) >= Len(native.vec) \/ Arg(3) >= Len(native.vec))
           \/ /\ native.op = "native_remove"
              /\ Arg(2) >= Len(native.vec)
           \/ /\ native.op = "pop_back"
              /\ native.vec = <<>>) =>
        /\ native.res.kind = "abort"
        /\ native.vec_after = native.vec

C24_Witness ==
    /\ native.op = "swap"
    /\ WellTyped
    /\ native.vec = <<1, 2>>
    /\ Arg(2) = 1
    /\ Arg(3) = 2
    /\ native.res.kind = "abort"
    /\ native.vec_after = <<1, 2>>

\* C27: a vector native given an argument of the wrong type (something
\* that is no vector reference where the reference is expected, no u64
\* where an index is expected, no vector as the second argument of
\* append) ends in an internal fault: the value is not coerced, the vector
\* is as it was and nothing is returned.
C27_WrongTypeFaults ==
    (VectorCalled /\ \E i \in DOMAIN native.called_with : WronglyTyped(i)) =>
        /\ native.res.kind = "fault"
        /\ native.res.err.major_status = "INTERNAL_TYPE_ERROR"
        /\ native.res.ret = <<>>
        /\ native.vec_after = native.vec

C27_Witness ==
    /\ native.op = "native_remove"
    /\ native.vec = <<1, 2>>
    /\ native.called_with = <<Value("vector_ref", <<>>), Value("bool", <<1>>)>>
    /\ native.res.kind = "fault"
    /\ native.vec_after = <<1, 2>>


StringNatives == {"check_utf8", "is_char_boundary", "sub_string", "index_of"}

\* The number of results a native is declared with.
DeclaredResults ==
    [empty |-> 1, length |-> 1, borrow |-> 1, borrow_mut |-> 1,
     pop_back |-> 1, native_remove |-> 1, spawn_from |-> 1, sha2_256 |-> 1,
     sha3_256 |-> 1, check_utf8 |-> 1, is_char_boundary |-> 1,
     sub_string |-> 1, index_of |-> 1,
     push_back |-> 0, destroy_empty |-> 0, swap |-> 0, native_append |-> 0,
     native_reverse |-> 0]

\* C25: a native that succeeds or aborts has taken every argument it was
\* called with (its argument queue is empty when it returns), and on
\* success it returns as many values as it declares.
C25_ConsumesArguments ==
    /\ HashCalled =>
          /\ native.arguments = <<>>
          /\ Len(native.ret) = DeclaredResults[native.op]
    /\ (native.op \in VectorNatives \cup StringNatives
           /\ native.res.kind \in {"ok", "abort"}) =>
          /\ native.arguments = <<>>
          /\ native.res.kind = "ok" =>
                Len(native.res.ret) = DeclaredResults[native.op]


\* The native has returned a NativeResult: a success or an abort.
Reported == native.res.kind \in {"ok", "abort"}

\* C40: native_error_to_abort gives back an error whose major status is not
\* VECTOR_OPERATION_ERROR with the same major status, sub status, message,
\* execution state, indices and code offsets.
C40_OtherErrorsUnchanged ==
    (Converted /\ native.err.major_status # "VECTOR_OPERATION_ERROR") =>
        /\ native.new_err.major_status = native.err.major_status
        /\ native.new_err.sub_status = native.err.sub_status
        /\ native.new_err.message = native.err.message
        /\ native.new_err.exec_state = native.err.exec_state
        /\ native.new_err.indices = native.err.indices
        /\ native.new_err.offsets = native.err.offsets

C40_Witness ==
    /\ Converted
    /\ native.err.major_status = "INTERNAL_TYPE_ERROR"
    /\ native.err.sub_status = {sub_status.POP_EMPTY_VEC}
    /\ native.err.message # {}
    /\ native.err.exec_state # {}
    /\ native.err.indices = <<7>>
    /\ native.new_err = native.err

\* The container operation of the native has failed: the native was given
\* what it pops with the types it pops them as, and it did not succeed.
ContainerFailed ==
    /\ WellTyped
    /\ native.op \notin {"empty", "length"}
    /\ native.res.kind # "ok"

MeasuredSize ==
    CASE native.op = "push_back" ->
           CASE native.called_with[2].tag = "bool" -> 1
             [] native.called_with[2].tag = "vector" ->
                  8 * Len(native.called_with[2].v)
             [] OTHER -> 8
      [] native.op = "native_remove" ->
           container("remove", native.vec, Arg(2), 0).memory_cost
      [] native.op = "native_reverse" ->
           container("reverse", native.vec, 0, 0).memory_cost
      [] native.op = "spawn_from" ->
           container("spawn_from", native.vec, Arg(2), Arg(3)).memory_cost
      [] native.op = "native_append" ->
           container("append", native.vec, native.called_with[2].v, 0)
               .memory_cost

\* C33: push_back, remove, reverse and spawn_from charge
\* base + legacy_unit_cost * max(1, measured_size); empty, length, borrow,
\* pop_back, destroy_empty and swap charge exactly base.
C33_VectorGas ==
    (WellTyped /\ Reported) =>
        /\ native.op \in {"push_back", "native_remove", "native_reverse",
                          "spawn_from"} =>
              native.res.cost
                 = native.gas_params.base
                     + native.gas_params.legacy_per_abstract_memory_unit
                         * (IF MeasuredSize >= 1 THEN MeasuredSize ELSE 1)
        /\ native.op \in {"empty", "length", "borrow", "borrow_mut",
                          "pop_back", "destroy_empty", "swap"} =>
              native.res.cost = native.gas_params.base

\* A reverse of an empty vector, whose measured size is 0.
C33_Witness ==
    /\ WellTyped /\ Reported
    /\ native.op = "native_reverse"
    /\ native.vec = <<>>
    /\ native.gas_params = [base |-> 10, legacy_per_abstract_memory_unit |-> 3]
    /\ native.res.cost = 13

\* C34: native_append charges base_cost + legacy_unit_cost * max(1,
\* size_of(val)) for the appended vector val; appending an empty vector
\* costs base_cost + legacy_unit_cost.
C34_AppendGas ==
    (WellTyped /\ Reported /\ native.op = "native_append") =>
        /\ native.res.cost
              = native.gas_params.base
                  + native.gas_params.legacy_per_abstract_memory_unit
                      * (IF MeasuredSize >= 1 THEN MeasuredSize ELSE 1)
        /\ native.called_with[2].v = <<>> =>
              native.res.cost
                 = native.gas_params.base
                     + native.gas_params.legacy_per_abstract_memory_unit

\* C35: native_sub_string called with a string s and indices i and j
\* returns the bytes s[i..j] or aborts, with NFE_STRING_INVALID_ARG_FAILURE
\* when j < i; it never ends in a fatal fault.
C35_SubStringNeverFatal ==
    native.op = "sub_string" =>
        /\ native.res.kind \in {"ok", "abort"}
        /\ native.res.kind = "ok" =>
              native.res.ret
                 = <<Value("vector_u8",
                           SubSeq(native.called_with[1].v, Arg(2) + 1,
                                  Arg(3)))>>
        /\ Arg(3) < Arg(2) =>
              /\ native.res.kind = "abort"
              /\ native.res.code = sub_status.NFE_STRING_INVALID_ARG_FAILURE

\* C38: a native that returns a NativeResult, a success or an abort,
\* reports a cost of at least its base cost; borrow, borrow_mut, pop_back,
\* swap and destroy_empty report the same cost, the base cost, when they
\* abort and when they succeed.
C38_CostAtLeastBase ==
    /\ HashingCalled => native.cost >= native.gas_params.base
    /\ (VectorCalled /\ Reported) =>
          /\ native.res.cost >= native.gas_params.base
          /\ native.op \in {"borrow", "borrow_mut", "pop_back", "swap",
                            "destroy_empty"} =>
                native.res.cost = native.gas_params.base

\* destroy_empty of a vector that is not empty aborts and charges the base.
C38_Witness ==
    /\ native.op = "destroy_empty"
    /\ native.called_with = <<Value("vector", <<1>>)>>
    /\ native.res.kind = "abort"
    /\ native.gas_params.base = 10
    /\ native.res.cost = 10

\* ---------------------------------------------------------------------
\* The native function table (move-stdlib/src/natives/mod.rs all_natives,
\* vector.rs and hash.rs make_all).

\* GasParameters: the gas parameters of the Hash and of the Vector module,
\* one structure per native (vector.rs 451-464, hash.rs 170-174), the base
\* costs pairwise different.
VectorFields ==
    <<"empty", "length", "push_back", "borrow", "pop_back", "destroy_empty",
      "swap", "append", "remove", "reverse", "spawn_from">>

GasParametersPool ==
    {[hash |->
         [sha2_256 |-> [base |-> b + 30, per_byte |-> l,
                        legacy_min_input_len |-> 10],
          sha3_256 |-> [base |-> b + 40, per_byte |-> l,
                        legacy_min_input_len |-> 10]],
      vector |->
         [f \in {VectorFields[k] : k \in DOMAIN VectorFields} |->
             [base |-> b + (CHOOSE k \in DOMAIN VectorFields :
                                VectorFields[k] = f),
              legacy_per_abstract_memory_unit |-> l]]] :
        <<b, l>> \in {<<0, 0>>, <<50, 3>>}}

\* vector.rs make_all, lines 466-486: each native is made with the
\* structure of its name; borrow and borrow_mut are both made with
\* gas_params.borrow.
vector_make_all(gas_params) ==
    [name \in VectorNatives |->
        CASE name = "borrow_mut" -> gas_params.borrow
          [] name = "native_append" -> gas_params.append
          [] name = "native_remove" -> gas_params.remove
          [] name = "native_reverse" -> gas_params.reverse
          [] OTHER -> gas_params[name]]

\* hash.rs make_all, lines 176-183
hash_make_all(gas_params) ==
    [name \in HashNatives |-> gas_params[name]]

\* all_natives, lines 139-163: the table maps the name of a native to the
\* closure made for it, which is the gas parameters it has captured.
all_natives(gas_params) ==
    [name \in HashNatives \cup VectorNatives |->
        IF name \in HashNatives THEN hash_make_all(gas_params.hash)[name]
        ELSE vector_make_all(gas_params.vector)[name]]

\* The same call, the closure adding what it charged to the base cost it
\* has captured.
call_native_accumulating(table, name, ty_args, args, vec) ==
    LET out == IF name \in HashNatives
               THEN native_hash(name, table[name], args)
               ELSE vector_native(name, table[name], ty_args, args, vec)
        cost == IF name \in HashNatives THEN out.cost ELSE out.res.cost
    IN [out |-> out,
        table |-> [table EXCEPT ![name].base = @ + cost]]

\* A native of the table is called: the closure (`move |context, ty_args,
\* args| native_x(&gas_params, context, ty_args, args)`, e.g. vector.rs
\* 44-50) passes the gas parameters it has captured; it is an Arc<Fn>, the
\* table is as it was.
call_native(table, name, ty_args, args, vec) ==
    [out |-> IF name \in HashNatives
             THEN native_hash(name, table[name], args)
             ELSE vector_native(name, table[name], ty_args, args, vec),
     table |-> table]

\* The inputs a native of the table is called with: the arguments and the
\* vector the reference among them refers to.
TableInputs(name) ==
    IF name \in HashNatives
    THEN {[args |-> <<input>>, vec |-> <<>>] : input \in HashInputs}
    ELSE {[args |-> args, vec |-> vec] :
            args \in [1 .. declared_args(name) -> ValuePool],
            vec \in {<<>>, <<1, 2>>}}

\* Two tables are built, each from gas parameters of its own.
BuildTables ==
    /\ tables = NoTables
    /\ \E gas1 \in GasParametersPool, gas2 \in GasParametersPool :
         tables' = <<[built_from |-> gas1, natives |-> all_natives(gas1),
                      called |-> FALSE],
                     [built_from |-> gas2, natives |-> all_natives(gas2),
                      called |-> FALSE]>>
    /\ UNCHANGED <<pubVars, sessVars, entry, native, task>>

\* A native of one of the tables is called.
TableCall ==
    /\ tables # NoTables
    /\ native = NativeIdle
    /\ \E t \in DOMAIN tables, name \in HashNatives \cup VectorNatives :
         \E inp \in TableInputs(name) :
            \E r \in {call_native(tables[t].natives, name, <<"u64">>,
                                  inp.args, inp.vec)} :
               /\ native' = [op |-> name, table |-> t,
                             called_with |-> inp.args, vec |-> inp.vec,
                             out |-> r.out]
               /\ tables' = [tables EXCEPT ![t].natives = r.table,
                                           ![t].called = TRUE]
    /\ UNCHANGED <<pubVars, sessVars, entry, task>>

TablesNext == BuildTables \/ TableCall \/ NativeReturn

SpecTables == Init /\ [][TablesNext]_vars

TableCalled == tables # NoTables /\ native # NativeIdle

\* The native of the name, given the gas parameters of its name.
Direct(gas_params) ==
    IF native.op \in HashNatives
    THEN native_hash(native.op, gas_params.hash[native.op],
                     native.called_with)
    ELSE vector_native(native.op,
                       gas_params.vector[
                           CASE native.op = "borrow_mut" -> "borrow"
                             [] native.op = "native_append" -> "append"
                             [] native.op = "native_remove" -> "remove"
                             [] native.op = "native_reverse" -> "reverse"
                             [] OTHER -> native.op],
                       <<"u64">>, native.called_with, native.vec)

MaxArgLen == 4
MaxAddressDigits == 1
ArgStrings == SeqsUpTo({"@", "0", "1", "a", "x"}, MaxArgLen)

\* char::is_ascii_digit and char::to_digit(16)
digit(c) == CASE c = "0" -> 0 [] c = "1" -> 1 [] c = "a" -> 10

\* str::strip_prefix: what follows the prefix, if the string starts with it.
strip_prefix(s, prefix) ==
    IF Len(s) >= Len(prefix) /\ SubSeq(s, 1, Len(prefix)) = prefix
    THEN {SubSeq(s, Len(prefix) + 1, Len(s))}
    ELSE {}

\* The value of a numeral in a base.
RECURSIVE numeral(_, _)
numeral(s, base) ==
    IF s = <<>> THEN 0
    ELSE numeral(SubSeq(s, 1, Len(s) - 1), base) * base + digit(s[Len(s)])

\* What the parsers give: Ok(value) or Err(error, as kind). A value is a named
\* address (its name), a u64 or an address (its number), or a u8 vector
\* (its bytes).
Result(ok, kind, name, v) ==
    [ok |-> ok, kind |-> kind, name |-> name, v |-> v]

\* Identifier::new: a letter followed by letters and digits.
Identifier_new(s) ==
    IF /\ s # <<>>
       /\ s[1] \in {"a", "x"}
       /\ \A k \in DOMAIN s : s[k] \in {"a", "x", "0", "1"}
    THEN Result(TRUE, "Identifier", s, <<>>)
    ELSE Result(FALSE, "Invalid identifier", <<>>, <<>>)

\* parser::parse_transaction_argument: a decimal numeral is a u64, 0x
\* followed by hex digits is an address when the digits are no more than
\* an address has.
parse_transaction_argument(s) ==
    IF s # <<>> /\ \A k \in DOMAIN s : s[k] \in {"0", "1"}
    THEN Result(TRUE, "U64", <<>>, <<numeral(s, 10)>>)
    ELSE IF /\ Len(s) > 2
            /\ SubSeq(s, 1, 2) = <<"0", "x">>
            /\ Len(s) - 2 <= MaxAddressDigits
            /\ \A k \in 3 .. Len(s) : s[k] \in {"0", "1", "a"}
    THEN Result(TRUE, "Address", <<>>,
                <<numeral(SubSeq(s, 3, Len(s)), 16)>>)
    ELSE Result(FALSE, "unrecognized token", <<>>, <<>>)

\* hex::decode: an even number of hex digits gives one byte for each two.
hex_decode(s) ==
    IF Len(s) % 2 # 0 THEN Result(FALSE, "OddLength", <<>>, <<>>)
    ELSE IF \E k \in DOMAIN s : s[k] \notin {"0", "1", "a"}
    THEN Result(FALSE, "InvalidHexCharacter", <<>>, <<>>)
    ELSE Result(TRUE, "U8Vector", <<>>,
                [k \in 1 .. Len(s) \div 2 |->
                    16 * digit(s[2 * k - 1]) + digit(s[2 * k])])

\* The same parser without the hex fallback.
parse_argument_without_fallback(s) ==
    IF strip_prefix(s, <<"@">>) # {}
    THEN LET stripped == CHOOSE t \in strip_prefix(s, <<"@">>) : TRUE
             identifier == Identifier_new(stripped)
         IN IF identifier.ok
            THEN Result(TRUE, "NamedAddress", stripped, <<>>)
            ELSE identifier
    ELSE parse_transaction_argument(s)

\* parse_argument(s), lines 524-542
parse_argument(s) ==
    IF strip_prefix(s, <<"@">>) # {}
    THEN LET stripped == CHOOSE t \in strip_prefix(s, <<"@">>) : TRUE
             identifier == Identifier_new(stripped)
         IN IF identifier.ok
            THEN Result(TRUE, "NamedAddress", stripped, <<>>)
            ELSE identifier
    ELSE LET arg == parse_transaction_argument(s)
         IN IF arg.ok THEN arg
            ELSE IF strip_prefix(s, <<"0", "x">>) # {}
            THEN hex_decode(CHOOSE t \in strip_prefix(s, <<"0", "x">>) : TRUE)
            ELSE arg

\* An argument of a task command is parsed.
ParseArgument ==
    /\ task = TaskIdle
    /\ \E s \in ArgStrings :
         task' = [op |-> "parse_argument", s |-> s,
                  result |-> parse_argument(s)]
    /\ UNCHANGED <<pubVars, sessVars, entry, native, tables>>

\* Longest input file of taskify, in lines.
MaxLines == 3

\* The lines of an input file, as sequences of characters: blank lines,
\* '//#' lines without and with a command, and lines of text.
LinePool ==
    { <<>>, <<" ">>,
      <<"/", "/", "#">>, <<" ", "/", "/", "#", " ">>,
      <<"/", "/", "#", "r">>, <<"/", "/", "#", " ", "r">>,
      <<"r">>, <<"/", "/", "r">> }

Files == SeqsUpTo(LinePool, MaxLines)

\* str::trim_start for the regular expressions' leading \s*.
RECURSIVE trim_start(_)
trim_start(line) ==
    IF line # <<>> /\ line[1] = " " THEN trim_start(Tail(line)) ELSE line

\* taskify, line 147: WHITESPACE = ^\s*$
WHITESPACE(line) == trim_start(line) = <<>>

\* taskify, line 149: COMMAND_TEXT = ^\s*//#\s*(.*)\s*$; the text captured
\* by the group, if the line matches.
COMMAND_TEXT(line) ==
    {trim_start(rest) : rest \in strip_prefix(trim_start(line),
                                              <<"/", "/", "#">>)}

\* taskify, lines 164-188: one turn of the loop over the numbered lines.
\* s = [bucketed_lines, cur_commands, cur_text, in_command].
bucket_line(s, line_number, line) ==
    LET pushed == IF s.in_command THEN s
                  ELSE [bucketed_lines |->
                            Append(s.bucketed_lines,
                                   [commands |-> s.cur_commands,
                                    text |-> s.cur_text]),
                        cur_commands |-> <<>>, cur_text |-> <<>>,
                        in_command |-> TRUE]
        command_text == CHOOSE t \in COMMAND_TEXT(line) : TRUE
    IN IF COMMAND_TEXT(line) # {}
       THEN IF command_text = <<>> THEN pushed
            ELSE [pushed EXCEPT !.cur_commands =
                                  Append(@, <<line_number, command_text>>)]
       ELSE IF WHITESPACE(line) THEN [s EXCEPT !.in_command = FALSE]
       ELSE [s EXCEPT !.in_command = FALSE,
                      !.cur_text = Append(@, <<line_number, line>>)]

RECURSIVE bucket_lines(_, _, _)
bucket_lines(lines, line_number, s) ==
    IF line_number > Len(lines)
    THEN Append(s.bucketed_lines,
                [commands |-> s.cur_commands, text |-> s.cur_text])
    ELSE bucket_lines(lines, line_number + 1,
                      bucket_line(s, line_number, lines[line_number]))

\* taskify, lines 196-215: the task of bucket number (counted from 0).
task_input(number, b) ==
    [number |-> number,
     start_line |-> b.commands[1][1],
     command_lines_stop |-> b.commands[Len(b.commands)][1],
     stop_line |-> IF b.text = <<>> THEN b.commands[Len(b.commands)][1]
                   ELSE b.text[Len(b.text)][1],
     commands |-> [k \in DOMAIN b.commands |-> b.commands[k][2]],
     text |-> [k \in DOMAIN b.text |-> b.text[k][2]]]

\* taskify(filename), lines 139-240, on the lines of the file: the tasks, the
\* error it returns or the assertion that fails.
taskify(lines) ==
    LET skipped == {i \in DOMAIN lines :
                       \A j \in 1 .. i : WHITESPACE(lines[j])}
        bucketed_lines ==
            bucket_lines(lines, Cardinality(skipped) + 1,
                         [bucketed_lines |-> <<>>, cur_commands |-> <<>>,
                          cur_text |-> <<>>, in_command |-> TRUE])
        without == {k \in DOMAIN bucketed_lines :
                       bucketed_lines[k].commands = <<>>}
    IN IF without = {}
       THEN [kind |-> "tasks", message |-> "",
             tasks |-> [k \in DOMAIN bucketed_lines |->
                           task_input(k - 1, bucketed_lines[k])]]
       ELSE IF Least(without) - 1 = 0
       THEN [kind |-> "error", message |-> "No initial command",
             tasks |-> <<>>]
       ELSE [kind |-> "panic", message |-> "assertion failed: number == 0",
             tasks |-> <<>>]

\* A test file is cut into its tasks.
Taskify ==
    /\ task = TaskIdle
    /\ \E lines \in Files :
         task' = [op |-> "taskify", s |-> lines, result |-> taskify(lines)]
    /\ UNCHANGED <<pubVars, sessVars, entry, native, tables>>

\* The test runner takes the result.
TaskReturn ==
    /\ task # TaskIdle
    /\ task' = TaskIdle
    /\ UNCHANGED <<pubVars, sessVars, entry, native, tables>>

TaskNext == ParseArgument \/ Taskify \/ TaskReturn

SpecTask == Init /\ [][TaskNext]_vars

ArgumentParsed == task.op = "parse_argument"

\* The string is '@' followed by an identifier.
AtIdentifier ==
    /\ Len(task.s) > 1
    /\ task.s[1] = "@"
    /\ task.s[2] \in {"a", "x"}
    /\ \A k \in 2 .. Len(task.s) : task.s[k] \in {"a", "x", "0", "1"}

\* The string is 0x followed by an even number of hex digits.
ZeroXHex ==
    /\ Len(task.s) >= 2
    /\ SubSeq(task.s, 1, 2) = <<"0", "x">>
    /\ Len(task.s) % 2 = 0
    /\ \A k \in 3 .. Len(task.s) : task.s[k] \in {"0", "1", "a"}

\* C28: parse_argument gives NamedAddress(identifier) for '@' followed by
\* an identifier, the transaction argument for a string that is one, the
\* u8 vector of the decoded bytes for a string that is none but is 0x
\* followed by valid hex, and an error for every other string.
C28_ParseArgument ==
    ArgumentParsed =>
        LET arg == parse_transaction_argument(task.s)
        IN CASE AtIdentifier ->
                  task.result = Result(TRUE, "NamedAddress",
                                       SubSeq(task.s, 2, Len(task.s)), <<>>)
             [] arg.ok -> task.result = arg
             [] ~arg.ok /\ ZeroXHex ->
                  /\ task.result.ok
                  /\ task.result.kind = "U8Vector"
                  /\ Len(task.result.v) = (Len(task.s) - 2) \div 2
                  /\ \A k \in DOMAIN task.result.v :
                        task.result.v[k]
                           = 16 * digit(task.s[2 * k + 1])
                               + digit(task.s[2 * k + 2])
             [] OTHER -> ~task.result.ok

C28_Witness ==
    /\ ArgumentParsed
    /\ task.s = <<"0", "x", "a", "1">>
    /\ task.result = Result(TRUE, "U8Vector", <<>>, <<161>>)

TaskifyCalled == task.op = "taskify"

\* C39: for every input file taskify never trips its assertion
\* number == 0: only the first bucket can be without command lines, so the
\* result is a list of tasks or the error 'No initial command', also for a
\* file with an empty '//#' line after a block of text.
C39_AssertionNeverTrips ==
    TaskifyCalled =>
        \/ task.result.kind = "tasks"
        \/ /\ task.result.kind = "error"
           /\ task.result.message = "No initial command"

====
